---- MODULE Spec2Model ----
(***************************************************************************)
(* A model of loki-cli (lk): the fetch-output classifier and the pruning   *)
(* of local branches (src/pruning.rs, prune in src/main.rs, src/git.rs),   *)
(* and the repository statistics pipeline (resolve_time_range,             *)
(* canonicalize_author, the author filters and repo_stats in src/main.rs), *)
(* git_command_stream with its two reader threads (src/git.rs), and save   *)
(* and commit over git_commands_status.                                    *)
(*                                                                         *)
(* Strings are sequences of one-character strings, so that starts_with,    *)
(* find, replace, trim and splitn are computed as the code computes them.  *)
(* An Option<T> is None or Some(v), a Result<T, E> is Ok(v) or Err(e).     *)
(***************************************************************************)
EXTENDS Integers, Sequences, FiniteSets, TLC

VARIABLES
    \* ---- the classifier and the highlighter applied to one line (src/pruning.rs)
    line,             \* the input line
    hbranch,          \* the branch name handed to highlight_pruned_branch_line
    classification,   \* the Option<String> is_pruned_branch returned
    highlighted,      \* the String highlight_pruned_branch_line returned
    cpc,              \* "input" | "classified" | "done"
    \* ---- prune (src/main.rs) and the repository it runs in
    repo_current,     \* the branch checked out in the repository
    repo_branches,    \* the local branches of the repository
    ppc,              \* where prune is: "start" | "branches" | "fetch" | "lines" | "delete" | "done"
    current_branch,   \* prune's current_branch
    branches,         \* prune's snapshot of the local branches
    fetch_lines,      \* the lines git_command_iter returned
    pos,              \* how many of them the for loop has consumed
    pruned_branches,  \* prune's Vec of branches to delete
    del_ix,           \* the next index of the delete loop
    events,           \* what prune printed and the git commands it ran, in order
    prune_result,     \* None while prune runs, then Some(Ok(()) or Err(message))
    \* ---- a sequence of canonicalize_author calls on the same two maps (src/main.rs)
    email_aliases,    \* HashMap<String, String>: email -> canonical key
    name_to_email,    \* HashMap<String, String>: name -> the email it was bound to
    last_call,        \* the last call: its arguments, the maps before it, what it returned
    first_key,        \* for each email passed so far, what its first call returned
    ncalls,           \* the number of calls made
    \* ---- the author filters applied to one commit's author (src/main.rs)
    f_name,           \* the author name
    f_email,          \* the author email
    f_names,          \* options.names, the --name filters
    f_emails,         \* options.emails, the --email filters
    f_result,         \* what matches_author_filters returned
    f_lowered,        \* what matches_author_filters_lowered returned
    fpc,              \* "input" | "done"
    \* ---- the time window of `lk repo stats`: clap's parse, then resolve_time_range
    t_options,        \* the flags given: days, weeks, months, from, to (each an Option)
    t_now,            \* Utc::now(), in seconds since the epoch
    t_result,         \* None, then Some(Ok(TimeRange)) or Some(Err(message))
    tpc,              \* "args" | "parsed" | "done"
    \* ---- repo_stats (src/main.rs), its git child and its progress meter
    s_options,        \* the RepoStatsOptions
    s_now,            \* Utc::now()
    range,            \* None, then Some(the TimeRange)
    git_args,         \* the arguments of `git log`
    log_lines,        \* the lines `git log` writes to its stdout
    spos,             \* how many of them the for loop has taken
    totals,           \* HashMap<String, usize>: canonical email -> commits
    email_to_name,    \* HashMap<String, String>: canonical email -> first name seen
    latest_commit_date_in_range,  \* Option<NaiveDate>
    stdout_lines,     \* what repo_stats has printed
    stats_result,     \* None, then Some(Ok(()) or Err(message))
    spc,              \* where repo_stats is
    after_meter,      \* where it goes once the meter is stopped: "report" | "done"
    meter_done,       \* ProgressMeter.done, the AtomicBool
    meter_pc,         \* the meter's thread: "unspawned" | "sleeping" | "check" | "write" | "exited"
    meter_i,          \* the thread's i, modulo the number of spinner frames
    stderr_line,      \* what the terminal's line shows: <<"clear">> or <<"spinner", frame>>
    \* ---- git_command_stream (src/git.rs), its git child, its threads and its consumer
    proc_out,         \* the lines the child writes to its stdout pipe
    proc_err,         \* the lines the child writes to its stderr pipe
    proc_pc,          \* the child: "none" | "running" | "pipes_closed" | "exited"
    exit_status,      \* the child's exit status once it has exited: "zero" | "nonzero"
    out_pc,           \* the stdout thread: "unspawned" | "reading" | "exited"
    err_pc,           \* the stderr thread: "unspawned" | "reading" | "waiting" | "exited"
    out_pos,          \* how many lines the stdout thread has read
    err_pos,          \* how many lines the stderr thread has read
    channel,          \* the lines sent on the mpsc channel and not yet received
    received,         \* the lines the consumer got from the iterator
    consumer_pc,      \* the consumer: "none" | "iterating" | "ended"
    wait_result,      \* None, then Some(what child.wait() returned)
    stream_result,    \* None, then Some(Ok(iterator) or Err(message))
    \* ---- save and commit (src/main.rs) over git_commands_status (src/git.rs)
    sv_entry,         \* the command run: "save" | "commit"
    sv_options,       \* the CommitOptions: all, update, message
    sv_pc,            \* where save is
    sv_commands,      \* commit's Vec of (name, args)
    sv_ix,            \* the next command of try_for_each
    sv_ran,           \* the git commands run so far and how each ended
    sv_result         \* None, then Some(Ok(()) or Err(message))

classVars == <<line, hbranch, classification, highlighted, cpc>>
pruneVars == <<repo_current, repo_branches, ppc, current_branch, branches,
               fetch_lines, pos, pruned_branches, del_ix, events, prune_result>>

canonVars == <<email_aliases, name_to_email, last_call, first_key, ncalls>>

filterVars == <<f_name, f_email, f_names, f_emails, f_result, f_lowered, fpc>>

timeVars == <<t_options, t_now, t_result, tpc>>

statsVars == <<s_options, s_now, range, git_args, log_lines, spos, totals,
               email_to_name, latest_commit_date_in_range, stdout_lines,
               stats_result, spc, after_meter>>
meterVars == <<meter_done, meter_pc, meter_i, stderr_line>>

streamVars == <<proc_out, proc_err, proc_pc, exit_status, out_pc, err_pc, out_pos,
                err_pos, channel, received, consumer_pc, wait_result, stream_result>>
saveVars == <<sv_entry, sv_options, sv_pc, sv_commands, sv_ix, sv_ran, sv_result>>
gitVars == <<streamVars, saveVars>>

vars == <<classVars, pruneVars, canonVars, filterVars, timeVars, statsVars, meterVars,
          gitVars>>

\* the variables of the other components
notClass == <<pruneVars, canonVars, filterVars, timeVars, statsVars, meterVars,
              gitVars>>
notPrune == <<classVars, canonVars, filterVars, timeVars, statsVars, meterVars,
              gitVars>>
notCanon == <<classVars, pruneVars, filterVars, timeVars, statsVars, meterVars,
              gitVars>>
notFilter == <<classVars, pruneVars, canonVars, timeVars, statsVars, meterVars,
               gitVars>>
notTime == <<classVars, pruneVars, canonVars, filterVars, statsVars, meterVars,
             gitVars>>
\* repo_stats owns the two maps of canonicalize_author
notStats == <<classVars, pruneVars, filterVars, timeVars, last_call, first_key, ncalls,
              gitVars>>
notStream == <<classVars, pruneVars, canonVars, filterVars, timeVars, statsVars,
               meterVars, saveVars>>
notSave == <<classVars, pruneVars, canonVars, filterVars, timeVars, statsVars,
             meterVars, streamVars>>

-----------------------------------------------------------------------------
(* Option and Result *)

None == [some |-> FALSE]
Some(v) == [some |-> TRUE, val |-> v]

Ok(v) == [ok |-> TRUE, val |-> v]
Err(e) == [ok |-> FALSE, err |-> e]

-----------------------------------------------------------------------------
(* The str operations the code uses *)

\* str::starts_with
starts_with(s, p) ==
    /\ Len(p) <= Len(s)
    /\ SubSeq(s, 1, Len(p)) = p

\* whether p occurs in s at the 0-based byte offset ix
matches_at(s, p, ix) ==
    /\ ix + Len(p) <= Len(s)
    /\ SubSeq(s, ix + 1, ix + Len(p)) = p

\* str::find: the 0-based offset of the first occurrence of p in s
find(s, p) ==
    LET hits == {ix \in 0..Len(s) : matches_at(s, p, ix)}
    IN  IF hits = {} THEN None
        ELSE Some(CHOOSE ix \in hits : \A other \in hits : ix <= other)

\* str::contains
contains(s, p) == find(s, p).some

\* the slice &s[from..] for a 0-based offset from
slice_from(s, from) == SubSeq(s, from + 1, Len(s))

\* str::replace: every non-overlapping occurrence of from, left to right; an
\* empty pattern matches at every character boundary
RECURSIVE replace(_, _, _)
replace(s, from, to) ==
    IF from = <<>>
    THEN IF s = <<>> THEN to
         ELSE to \o <<Head(s)>> \o replace(Tail(s), from, to)
    ELSE IF Len(s) < Len(from) THEN s
    ELSE IF starts_with(s, from)
         THEN to \o replace(slice_from(s, Len(from)), from, to)
         ELSE <<Head(s)>> \o replace(Tail(s), from, to)

-----------------------------------------------------------------------------
(* src/pruning.rs *)

ORIGIN == <<"o","r","i","g","i","n","/">>
DELETED == <<" ","-"," ","[","d","e","l","e","t","e","d","]">>
RED == <<"ESC","[","3","1","m">>
RESET == <<"ESC","[","0","m">>

\* a find that returns the last occurrence instead of the first
mutant_find_origin(s) ==
    LET hits == {ix \in 0..Len(s) : matches_at(s, ORIGIN, ix)}
    IN  IF hits = {} THEN None
        ELSE Some(CHOOSE ix \in hits : \A other \in hits : ix >= other)

\* s.find(ORIGIN)
find_origin(s) == find(s, ORIGIN)

\* a marker test that accepts the marker anywhere in the line
mutant_has_deleted_marker(s) == contains(s, DELETED)

\* s.starts_with(DELETED)
has_deleted_marker(s) == starts_with(s, DELETED)

is_pruned_branch(s) ==
    IF has_deleted_marker(s)
    THEN LET ix == find_origin(s)
         IN  IF ix.some THEN Some(slice_from(s, ix.val + Len(ORIGIN))) ELSE None
    ELSE None

\* a highlighter that always wraps the bare branch name
mutant_highlight_pruned_branch_line(l, branch) ==
    replace(l, branch, RED \o branch \o RESET)

highlight_pruned_branch_line(l, branch) ==
    LET remote_branch == ORIGIN \o branch
        highlighted_remote_branch == RED \o remote_branch \o RESET
    IN  IF contains(l, remote_branch)
        THEN replace(l, remote_branch, highlighted_remote_branch)
        ELSE replace(l, branch, RED \o branch \o RESET)

highlight_branch_name(branch) == RED \o branch \o RESET

-----------------------------------------------------------------------------
(* The lines the classifier is applied to: the literal lines of prune_tests *)
(* and every concatenation of at most MaxPieces pieces.                     *)

MaxPieces == 3

FixturePruned == <<" ","-"," ","[","d","e","l","e","t","e","d","]"," "," "," "," "," "," "," "," "," ","(","n","o","n","e",")"," "," "," "," "," ","-",">"," ","o","r","i","g","i","n","/","c","o","m","m","a","n","d","-","p","u","s","h">>
FixtureRefUpdate == <<" "," "," ","0","1","c","2","f","3","a",".",".","e","4","b","4","0","f","0"," "," ","m","a","i","n"," "," "," "," "," "," "," ","-",">"," ","o","r","i","g","i","n","/","m","a","i","n">>
FixtureNewTag == <<" ","*"," ","[","n","e","w"," ","t","a","g","]"," "," "," "," "," "," "," "," "," ","l","o","k","i","-","c","l","i","-","0",".","2",".","0"," ","-",">"," ","l","o","k","i","-","c","l","i","-","0",".","2",".","0">>
FixtureFrom == <<"F","r","o","m"," ","g","i","t","h","u","b",".","c","o","m",":","k","y","l","e","-","r","a","d","e","r","/","l","o","k","i","-","c","l","i">>
CommandPush == <<"c","o","m","m","a","n","d","-","p","u","s","h">>

Fixtures == {FixturePruned, FixtureRefUpdate, FixtureNewTag, FixtureFrom}

Pieces ==
    { DELETED, ORIGIN,
      <<" ","-"," ","[","d","e","l","e","t","e","d">>,   \* the marker cut short
      <<"o","r","i","g","i","n">>,                       \* the remote token cut short
      <<" ">>, <<"a">>, <<"m">> }

RECURSIVE Concats(_)
Concats(n) ==
    IF n = 0 THEN {<<>>}
    ELSE LET shorter == Concats(n - 1)
         IN  shorter \cup {s \o p : s \in shorter, p \in Pieces}

Lines == Fixtures \cup Concats(MaxPieces)

HighlightBranches == {<<>>, <<"a">>, <<"m">>, CommandPush}

\* the values of the variables of a component that is not running
ClassIdle ==
    /\ line = <<>>
    /\ hbranch = <<>>
    /\ classification = None
    /\ highlighted = <<>>
    /\ cpc = "idle"

PruneIdle ==
    /\ repo_current = <<>>
    /\ repo_branches = {}
    /\ ppc = "idle"
    /\ current_branch = <<>>
    /\ branches = {}
    /\ fetch_lines = <<>>
    /\ pos = 0
    /\ pruned_branches = <<>>
    /\ del_ix = 1
    /\ events = <<>>
    /\ prune_result = None

NoCall == [made |-> FALSE]

CanonIdle ==
    /\ email_aliases = <<>>
    /\ name_to_email = <<>>
    /\ last_call = NoCall
    /\ first_key = <<>>
    /\ ncalls = 0

FilterIdle ==
    /\ f_name = <<>>
    /\ f_email = <<>>
    /\ f_names = <<>>
    /\ f_emails = <<>>
    /\ f_result = None
    /\ f_lowered = None
    /\ fpc = "idle"

TimeIdle ==
    /\ t_options = <<>>
    /\ t_now = 0
    /\ t_result = None
    /\ tpc = "idle"

StatsIdle ==
    /\ s_options = <<>>
    /\ s_now = 0
    /\ range = None
    /\ git_args = <<>>
    /\ log_lines = <<>>
    /\ spos = 0
    /\ totals = <<>>
    /\ email_to_name = <<>>
    /\ latest_commit_date_in_range = None
    /\ stdout_lines = <<>>
    /\ stats_result = None
    /\ spc = "idle"
    /\ after_meter = "done"
    /\ meter_done = FALSE
    /\ meter_pc = "unspawned"
    /\ meter_i = 0
    /\ stderr_line = <<"clear">>

StreamIdle ==
    /\ proc_out = <<>>
    /\ proc_err = <<>>
    /\ proc_pc = "none"
    /\ exit_status = "none"
    /\ out_pc = "unspawned"
    /\ err_pc = "unspawned"
    /\ out_pos = 0
    /\ err_pos = 0
    /\ channel = <<>>
    /\ received = <<>>
    /\ consumer_pc = "none"
    /\ wait_result = None
    /\ stream_result = None

SaveIdle ==
    /\ sv_entry = "none"
    /\ sv_options = <<>>
    /\ sv_pc = "idle"
    /\ sv_commands = <<>>
    /\ sv_ix = 1
    /\ sv_ran = <<>>
    /\ sv_result = None

GitIdle == StreamIdle /\ SaveIdle

-----------------------------------------------------------------------------
(* The classifier and the highlighter applied to one line *)

ClassInit ==
    /\ line \in Lines
    /\ hbranch = <<>>
    /\ classification = None
    /\ highlighted = <<>>
    /\ cpc = "input"

\* is_pruned_branch(line)
Classify ==
    /\ cpc = "input"
    /\ classification' = is_pruned_branch(line)
    /\ cpc' = "classified"
    /\ UNCHANGED <<line, hbranch, highlighted>>
    /\ UNCHANGED notClass

\* highlight_pruned_branch_line(line, branch): prune calls it with the branch
\* the classifier returned; the tests call it with a branch of their own
Highlight ==
    /\ cpc = "classified"
    /\ \E b \in (IF classification.some THEN {classification.val} ELSE {})
                    \cup HighlightBranches :
          /\ hbranch' = b
          /\ highlighted' = highlight_pruned_branch_line(line, b)
    /\ cpc' = "done"
    /\ UNCHANGED <<line, classification>>
    /\ UNCHANGED notClass

NextClassify == Classify \/ Highlight

InitClassify == ClassInit /\ PruneIdle /\ CanonIdle /\ FilterIdle /\ TimeIdle /\ StatsIdle /\ GitIdle

SpecClassify == InitClassify /\ [][NextClassify]_vars

-----------------------------------------------------------------------------
(* Claims about the classifier *)

\* the 1-based positions at which the remote token occurs in l
OriginPositions(l) ==
    {i \in 1..Len(l) :
        /\ i + Len(ORIGIN) - 1 <= Len(l)
        /\ \A k \in 1..Len(ORIGIN) : l[i + k - 1] = ORIGIN[k]}

\* whether l begins with the deleted-ref marker
BeginsWithMarker(l) ==
    /\ Len(l) >= Len(DELETED)
    /\ \A k \in 1..Len(DELETED) : l[k] = DELETED[k]

\* C2: is_pruned_branch returns a branch exactly when the line starts with
\* " - [deleted]" and contains "origin/"; the name is then the text after the
\* first "origin/" up to the end of the line ("command-push" for the fixture
\* line), and every other line is classified None.
C2_ClassifierExact ==
    cpc # "input" =>
        /\ classification.some <=>
              (BeginsWithMarker(line) /\ OriginPositions(line) # {})
        /\ classification.some =>
              \E i \in OriginPositions(line) :
                  /\ \A j \in OriginPositions(line) : i <= j
                  /\ Len(classification.val) = Len(line) - (i + Len(ORIGIN) - 1)
                  /\ \A k \in 1..Len(classification.val) :
                        classification.val[k] = line[i + Len(ORIGIN) - 1 + k]
        /\ (line = FixturePruned) => (classification = Some(CommandPush))
        /\ (line \in Fixtures \ {FixturePruned}) => (classification = None)

\* a line with two occurrences of the remote token has been classified as pruned
C2_Witness ==
    /\ cpc = "classified"
    /\ classification.some
    /\ Cardinality(OriginPositions(line)) = 2

\* C3 (as claimed): whenever the classifier returns a branch name, the name is
\* non-empty and does not include "origin/".
C3_NameNonEmptyNoPrefix ==
    (cpc # "input" /\ classification.some) =>
        /\ classification.val # <<>>
        /\ OriginPositions(classification.val) = {}

-----------------------------------------------------------------------------
(* src/git.rs: running git *)

\* How a run of a git command can end: the process could not be started, or it
\* ran and exited with status zero or with a nonzero status.
Outcomes == {"spawn_error", "exit_zero", "exit_nonzero"}

\* a git_command_status that also fails on a nonzero exit status
mutant_git_command_status(outcome) ==
    IF outcome = "exit_zero" THEN Ok("unit") ELSE Err("failed to run")

\* git_command_status: Command::status() is an Err only when the process could
\* not be run; the ExitStatus it returns otherwise is not looked at
git_command_status(outcome) ==
    IF outcome = "spawn_error" THEN Err("failed to run") ELSE Ok("unit")

\* git_command_iter: all of stderr's lines, then all of stdout's
git_command_iter(stderr, stdout) == Ok(stderr \o stdout)

-----------------------------------------------------------------------------
(* prune (src/main.rs) *)

MaxLines == 3

BranchA == <<"a">>
BranchB == <<"b">>
BranchMain == <<"m">>

\* the repositories prune runs in: the checked-out branch and the local branches
Repos ==
    { [current |-> BranchMain, branches |-> {BranchMain}],
      [current |-> BranchMain, branches |-> {BranchMain, BranchA, BranchB}],
      [current |-> BranchA, branches |-> {BranchMain, BranchA}] }

\* the lines `git fetch --prune` prints: a deleted ref for each branch, and a
\* progress line
DeletedLine(b) == DELETED \o <<" ">> \o ORIGIN \o b
FetchLines ==
    { DeletedLine(BranchA), DeletedLine(BranchB), DeletedLine(BranchMain), <<"x">> }

RECURSIVE SeqsUpTo(_, _)
SeqsUpTo(S, n) ==
    IF n = 0 THEN {<<>>}
    ELSE LET shorter == SeqsUpTo(S, n - 1)
         IN  shorter \cup {Append(q, x) : q \in shorter, x \in S}

\* a guard that forgets the current branch
mutant_should_delete(pruned_branch, known, current) == pruned_branch \in known

\* the condition under which prune keeps a pruned branch for deletion
should_delete(pruned_branch, known, current) ==
    pruned_branch \in known /\ pruned_branch # current

\* a delete loop that reports every branch as deleted
mutant_delete_report(pruned_branch, branch_delete) ==
    [kind |-> "stdout", msg |-> "Deleted local branch",
     branch |-> highlight_branch_name(pruned_branch)]

\* what prune prints after git_command_status returned branch_delete
delete_report(pruned_branch, branch_delete) ==
    IF ~branch_delete.ok
    THEN [kind |-> "stderr", msg |-> "Failed to delete pruned branch",
          branch |-> highlight_branch_name(pruned_branch)]
    ELSE [kind |-> "stdout", msg |-> "Deleted local branch",
          branch |-> highlight_branch_name(pruned_branch)]

PruneInit ==
    /\ \E r \in Repos :
          /\ repo_current = r.current
          /\ repo_branches = r.branches
    /\ ppc = "start"
    /\ current_branch = <<>>
    /\ branches = {}
    /\ fetch_lines = <<>>
    /\ pos = 0
    /\ pruned_branches = <<>>
    /\ del_ix = 1
    /\ events = <<>>
    /\ prune_result = None

\* let current_branch = git_current_branch()?;
PruneCurrentBranch ==
    /\ ppc = "start"
    /\ \/ /\ current_branch' = repo_current
          /\ ppc' = "branches"
          /\ UNCHANGED prune_result
       \/ /\ prune_result' = Some(Err("get current branch failed"))
          /\ ppc' = "done"
          /\ UNCHANGED current_branch
    /\ UNCHANGED <<repo_current, repo_branches, branches, fetch_lines, pos,
                   pruned_branches, del_ix, events>>
    /\ UNCHANGED notPrune

\* let branches = git_branches()?;
PruneBranches ==
    /\ ppc = "branches"
    /\ \/ /\ branches' = repo_branches
          /\ ppc' = "fetch"
          /\ UNCHANGED prune_result
       \/ /\ prune_result' = Some(Err("get branches failed"))
          /\ ppc' = "done"
          /\ UNCHANGED branches
    /\ UNCHANGED <<repo_current, repo_branches, current_branch, fetch_lines, pos,
                   pruned_branches, del_ix, events>>
    /\ UNCHANGED notPrune

\* git_command_iter("pull with pruning", vec![cmd, "--prune"])?
PruneFetch ==
    /\ ppc = "fetch"
    /\ \/ \E err \in SeqsUpTo(FetchLines, MaxLines) :
          \E out \in {<<>>, <<<<"x">>>>} :
             /\ Len(err) + Len(out) <= MaxLines
             /\ fetch_lines' = git_command_iter(err, out).val
             /\ ppc' = "lines"
             /\ UNCHANGED prune_result
       \/ /\ prune_result' = Some(Err("pull with pruning failed"))
          /\ ppc' = "done"
          /\ UNCHANGED fetch_lines
    /\ UNCHANGED <<repo_current, repo_branches, current_branch, branches, pos,
                   pruned_branches, del_ix, events>>
    /\ UNCHANGED notPrune

\* a loop that runs the delete of a pruned branch right after its line
mutant_PruneLine ==
    /\ ppc = "lines"
    /\ pos < Len(fetch_lines)
    /\ LET l == fetch_lines[pos + 1]
           pruned == is_pruned_branch(l)
       IN  IF pruned.some
           THEN /\ events' = Append(events,
                       [kind |-> "stdout", msg |-> "line",
                        text |-> highlight_pruned_branch_line(l, pruned.val)])
                     \o (IF should_delete(pruned.val, branches, current_branch)
                         THEN << [kind |-> "git", args |-> <<"branch", "-D", pruned.val>>,
                                  outcome |-> "exit_zero"],
                                 delete_report(pruned.val, git_command_status("exit_zero")) >>
                         ELSE <<>>)
                /\ pruned_branches' =
                       IF should_delete(pruned.val, branches, current_branch)
                       THEN Append(pruned_branches, pruned.val)
                       ELSE pruned_branches
           ELSE /\ events' = Append(events,
                       [kind |-> "stdout", msg |-> "line", text |-> l])
                /\ UNCHANGED pruned_branches
    /\ pos' = pos + 1
    /\ UNCHANGED <<repo_current, repo_branches, ppc, current_branch, branches,
                   fetch_lines, del_ix, prune_result>>
    /\ UNCHANGED notPrune

\* one iteration of the for loop over the lines
PruneLine ==
    /\ ppc = "lines"
    /\ pos < Len(fetch_lines)
    /\ LET l == fetch_lines[pos + 1]
           pruned == is_pruned_branch(l)
       IN  IF pruned.some
           THEN /\ events' = Append(events,
                       [kind |-> "stdout", msg |-> "line",
                        text |-> highlight_pruned_branch_line(l, pruned.val)])
                /\ pruned_branches' =
                       IF should_delete(pruned.val, branches, current_branch)
                       THEN Append(pruned_branches, pruned.val)
                       ELSE pruned_branches
           ELSE /\ events' = Append(events,
                       [kind |-> "stdout", msg |-> "line", text |-> l])
                /\ UNCHANGED pruned_branches
    /\ pos' = pos + 1
    /\ UNCHANGED <<repo_current, repo_branches, ppc, current_branch, branches,
                   fetch_lines, del_ix, prune_result>>
    /\ UNCHANGED notPrune

\* an end of prune that says so when pruned branches were all skipped
mutant_PruneNoneFound ==
    /\ ppc = "lines"
    /\ pos = Len(fetch_lines)
    /\ pruned_branches = <<>>
    /\ events' = Append(events,
           [kind |-> "stdout",
            msg |-> IF \E j \in 1..Len(fetch_lines) : is_pruned_branch(fetch_lines[j]).some
                    THEN "Pruned branches were skipped"
                    ELSE "No pruned branches found"])
    /\ prune_result' = Some(Ok("unit"))
    /\ ppc' = "done"
    /\ UNCHANGED <<repo_current, repo_branches, current_branch, branches,
                   fetch_lines, pos, pruned_branches, del_ix>>
    /\ UNCHANGED notPrune

\* if pruned_branches.is_empty() { println!(..); return Ok(()) }
PruneNoneFound ==
    /\ ppc = "lines"
    /\ pos = Len(fetch_lines)
    /\ pruned_branches = <<>>
    /\ events' = Append(events,
           [kind |-> "stdout", msg |-> "No pruned branches found"])
    /\ prune_result' = Some(Ok("unit"))
    /\ ppc' = "done"
    /\ UNCHANGED <<repo_current, repo_branches, current_branch, branches,
                   fetch_lines, pos, pruned_branches, del_ix>>
    /\ UNCHANGED notPrune

\* the for loop over the lines is over and there is a branch to delete
PruneStartDelete ==
    /\ ppc = "lines"
    /\ pos = Len(fetch_lines)
    /\ pruned_branches # <<>>
    /\ ppc' = "delete"
    /\ UNCHANGED <<repo_current, repo_branches, current_branch, branches,
                   fetch_lines, pos, pruned_branches, del_ix, events, prune_result>>
    /\ UNCHANGED notPrune

\* one iteration of the delete loop: git branch -D, then the report
PruneDelete ==
    /\ ppc = "delete"
    /\ del_ix <= Len(pruned_branches)
    /\ \E outcome \in Outcomes :
          LET pruned_branch == pruned_branches[del_ix]
              branch_delete == git_command_status(outcome)
          IN  /\ events' = events \o
                     << [kind |-> "git", args |-> <<"branch", "-D", pruned_branch>>,
                         outcome |-> outcome],
                        delete_report(pruned_branch, branch_delete) >>
              \* git deletes the branch when it exits with status zero; it
              \* refuses to delete the checked-out branch
              /\ repo_branches' =
                     IF outcome = "exit_zero" /\ pruned_branch # repo_current
                     THEN repo_branches \ {pruned_branch}
                     ELSE repo_branches
    /\ del_ix' = del_ix + 1
    /\ UNCHANGED <<repo_current, ppc, current_branch, branches, fetch_lines, pos,
                   pruned_branches, prune_result>>
    /\ UNCHANGED notPrune

\* Ok(()) after the delete loop
PruneReturn ==
    /\ ppc = "delete"
    /\ del_ix > Len(pruned_branches)
    /\ prune_result' = Some(Ok("unit"))
    /\ ppc' = "done"
    /\ UNCHANGED <<repo_current, repo_branches, current_branch, branches,
                   fetch_lines, pos, pruned_branches, del_ix, events>>
    /\ UNCHANGED notPrune

NextPrune ==
    \/ PruneCurrentBranch
    \/ PruneBranches
    \/ PruneFetch
    \/ PruneLine
    \/ PruneNoneFound
    \/ PruneStartDelete
    \/ PruneDelete
    \/ PruneReturn

InitPrune == PruneInit /\ ClassIdle /\ CanonIdle /\ FilterIdle /\ TimeIdle /\ StatsIdle /\ GitIdle

SpecPrune == InitPrune /\ [][NextPrune]_vars

-----------------------------------------------------------------------------
(* Claims about prune *)

\* whether l is a deleted-ref line whose text after its first "origin/" is b
ReportsPruned(l, b) ==
    /\ BeginsWithMarker(l)
    /\ \E i \in OriginPositions(l) :
          /\ \A j \in OriginPositions(l) : i <= j
          /\ SubSeq(l, i + Len(ORIGIN), Len(l)) = b

\* the branches prune ran `git branch -D` for
DeleteIssued == {events[i].args[3] : i \in {k \in 1..Len(events) : events[k].kind = "git"}}

\* C1: a delete command is issued for a branch only if some consumed line
\* reported it pruned, it is in the snapshot of local branches taken at the
\* start, and it is not the current branch.
C1_DeletesOnlyEligible ==
    \A b \in DeleteIssued :
        /\ \E j \in 1..pos : ReportsPruned(fetch_lines[j], b)
        /\ b \in branches
        /\ b # current_branch
        /\ b # repo_current

\* prune has finished after a fetch that reported the current branch pruned,
\* a branch that is not local pruned, and a branch it deleted
C1_Witness ==
    /\ ppc = "done"
    /\ DeleteIssued # {}
    /\ \E j \in 1..pos : ReportsPruned(fetch_lines[j], current_branch)
    /\ \E j \in 1..pos : \E b \in {BranchA, BranchB, BranchMain} \ branches :
          ReportsPruned(fetch_lines[j], b)

\* C10 (as claimed): when prune has consumed the lines, it returns Ok, it ran a
\* delete for every eligible pruned branch whatever the other deletes did, and
\* each delete is followed by the report for that branch: "Deleted" only if
\* the delete succeeded, "Failed" otherwise.
C10_DeleteFailuresReported ==
    (ppc = "done" /\ pos = Len(fetch_lines) /\ fetch_lines # <<>>) =>
        /\ prune_result = Some(Ok("unit"))
        /\ \A j \in 1..Len(fetch_lines) : \A b \in branches \ {current_branch} :
              ReportsPruned(fetch_lines[j], b) => b \in DeleteIssued
        /\ \A i \in 1..Len(events) :
              events[i].kind = "git" =>
                  /\ i < Len(events)
                  /\ events[i + 1].branch = highlight_branch_name(events[i].args[3])
                  /\ events[i + 1].msg =
                        IF events[i].outcome = "exit_zero"
                        THEN "Deleted local branch"
                        ELSE "Failed to delete pruned branch"

\* the indices of the events that display a line of the fetch
LineEvents == {k \in 1..Len(events) : events[k].kind = "stdout" /\ events[k].msg = "line"}

\* the indices of the events that run `git branch -D`
GitEvents == {k \in 1..Len(events) : events[k].kind = "git"}

\* the k-th smallest member of a set of indices
RECURSIVE Nth(_, _)
Nth(S, k) ==
    LET least == CHOOSE i \in S : \A j \in S : i <= j
    IN  IF k = 1 THEN least ELSE Nth(S \ {least}, k - 1)

\* the line as prune displays it
Displayed(l) ==
    IF \E b \in {SubSeq(l, i, Len(l)) : i \in 1..Len(l) + 1} : ReportsPruned(l, b)
    THEN LET b == CHOOSE b \in {SubSeq(l, i, Len(l)) : i \in 1..Len(l) + 1} :
                      ReportsPruned(l, b)
         IN  highlight_pruned_branch_line(l, b)
    ELSE l

\* the lines displayed so far are the lines consumed so far, in their order
LinesInOrder ==
    /\ Cardinality(LineEvents) = pos
    /\ \A j \in 1..pos : events[Nth(LineEvents, j)].text = Displayed(fetch_lines[j])

\* the j-th line reports a branch prune deletes
Eligible(j) ==
    \E b \in branches \ {current_branch} : ReportsPruned(fetch_lines[j], b)

\* C11 (as claimed): the lines are displayed in the order of the input, and
\* the delete of a pruned branch is attempted right after its line was
\* displayed, before the next line is displayed.
C11_DeleteRightAfterLine ==
    /\ LinesInOrder
    /\ \A j \in 1..pos :
          (Eligible(j) /\ j < pos) =>
              \E g \in GitEvents :
                  /\ Nth(LineEvents, j) < g
                  /\ g < Nth(LineEvents, j + 1)

\* C11 (amended): the lines are displayed in the order of the input; every
\* delete is attempted after the last line of the input was displayed, and the
\* deletes follow the order of the lines that reported their branches.
C11_DeletesAfterAllLines ==
    /\ LinesInOrder
    /\ GitEvents # {} => pos = Len(fetch_lines)
    /\ \A g \in GitEvents : \A k \in LineEvents : k < g
    /\ LET eligible == {j \in 1..Len(fetch_lines) : Eligible(j)}
       IN  /\ Cardinality(GitEvents) <= Cardinality(eligible)
           /\ \A n \in 1..Cardinality(GitEvents) :
                 ReportsPruned(fetch_lines[Nth(eligible, n)],
                               events[Nth(GitEvents, n)].args[3])

\* prune has finished a fetch whose first line reported a branch that it
\* deleted, and that had a line after it
C11_Witness ==
    /\ ppc = "done"
    /\ Len(fetch_lines) > 1
    /\ Eligible(1)
    /\ GitEvents # {}
    /\ Nth(LineEvents, 2) < Nth(GitEvents, 1)

\* there is no pruned-branch line in the fetch
NoPrunedLine ==
    \A j \in 1..Len(fetch_lines) :
        ~(BeginsWithMarker(fetch_lines[j]) /\ OriginPositions(fetch_lines[j]) # {})

\* there are pruned-branch lines in the fetch and each of them was skipped
AllSkipped ==
    /\ ~NoPrunedLine
    /\ \A j \in 1..Len(fetch_lines) : ~Eligible(j)

\* prune returned Ok after it consumed the fetch
PruneOk ==
    /\ ppc = "done"
    /\ prune_result = Some(Ok("unit"))

\* what prune reported after the lines of the fetch
Outcome == SubSeq(events, pos + 1, Len(events))

NothingPruned == <<[kind |-> "stdout", msg |-> "No pruned branches found"]>>

-----------------------------------------------------------------------------
(* canonicalize_author (src/main.rs) *)

\* HashMap::get
get(map, key) == IF key \in DOMAIN map THEN Some(map[key]) ELSE None

\* HashMap::insert
insert(map, key, value) ==
    [k \in DOMAIN map \cup {key} |-> IF k = key THEN value ELSE map[k]]

\* HashMap::entry(key).or_insert_with(|| value)
or_insert(map, key, value) ==
    IF key \in DOMAIN map THEN map ELSE insert(map, key, value)

\* a canonicalize_author that looks the name up before the email
mutant_canonicalize_name_first(email, name, aliases, names) ==
    IF name # <<>> /\ get(names, name).some
    THEN [ret |-> names[name],
          email_aliases |-> insert(aliases, email, names[name]),
          name_to_email |-> names]
    ELSE IF get(aliases, email).some
    THEN [ret |-> aliases[email], email_aliases |-> aliases, name_to_email |-> names]
    ELSE [ret |-> email,
          email_aliases |-> or_insert(aliases, email, email),
          name_to_email |-> IF name # <<>> THEN insert(names, name, email) ELSE names]

\* a canonicalize_author that never merges by name
mutant_canonicalize_no_merge(email, name, aliases, names) ==
    IF get(aliases, email).some
    THEN [ret |-> aliases[email], email_aliases |-> aliases, name_to_email |-> names]
    ELSE [ret |-> email,
          email_aliases |-> or_insert(aliases, email, email),
          name_to_email |-> IF name # <<>> THEN or_insert(names, name, email) ELSE names]

\* canonicalize_author: what it returns and the two maps as it leaves them
canonicalize_author(email, name, aliases, names) ==
    IF get(aliases, email).some
    THEN [ret |-> get(aliases, email).val,
          email_aliases |-> aliases, name_to_email |-> names]
    ELSE IF name # <<>> /\ get(names, name).some
    THEN LET existing_email == get(names, name).val
         IN  [ret |-> existing_email,
              email_aliases |-> insert(aliases, email, existing_email),
              name_to_email |-> names]
    ELSE LET names1 == IF name # <<>> THEN insert(names, name, email) ELSE names
         IN  [ret |-> email,
              email_aliases |-> or_insert(aliases, email, email),
              name_to_email |-> names1]

MaxCalls == 4

\* the emails alias@, bob@ and carol@, and the names "", bob and display
Emails == {<<"a","@">>, <<"b","@">>, <<"c","@">>}
Names == {<<>>, <<"b">>, <<"d">>}

CanonInit ==
    /\ email_aliases = <<>>
    /\ name_to_email = <<>>
    /\ last_call = NoCall
    /\ first_key = <<>>
    /\ ncalls = 0

\* one call of canonicalize_author on the shared maps
CanonicalizeCall ==
    /\ ncalls < MaxCalls
    /\ \E email \in Emails, name \in Names :
          LET r == canonicalize_author(email, name, email_aliases, name_to_email)
          IN  /\ email_aliases' = r.email_aliases
              /\ name_to_email' = r.name_to_email
              /\ last_call' = [made |-> TRUE, email |-> email, name |-> name,
                               ret |-> r.ret,
                               pre_aliases |-> email_aliases,
                               pre_names |-> name_to_email]
              /\ first_key' = or_insert(first_key, email, r.ret)
    /\ ncalls' = ncalls + 1
    /\ UNCHANGED notCanon

NextCanon == CanonicalizeCall

InitCanon == CanonInit /\ ClassIdle /\ PruneIdle /\ FilterIdle /\ TimeIdle /\ StatsIdle /\ GitIdle

SpecCanon == InitCanon /\ [][NextCanon]_vars

-----------------------------------------------------------------------------
(* Claims about canonicalize_author *)

\* the last call passed a name that was bound, with another email than the one
\* the name was bound to
NameBoundOtherEmail ==
    /\ last_call.made
    /\ last_call.name \in DOMAIN last_call.pre_names
    /\ last_call.email # last_call.pre_names[last_call.name]

\* the canonical key of the email the last call's name was first bound to
KeyOfFirstEmail == last_call.pre_aliases[last_call.pre_names[last_call.name]]

\* C4 (as claimed): once a name is bound to an email, every later call with
\* that name and a different email returns the canonical key of the first
\* email bound to the name.
C4_NameResolvesToFirstEmail ==
    NameBoundOtherEmail => last_call.ret = KeyOfFirstEmail

\* C4 (amended): once a name is bound to an email, every later call with that
\* name and a different email that no earlier call has passed returns the
\* canonical key of the first email bound to the name; a name's binding never
\* changes.
C4_NewEmailResolvesToFirstEmail ==
    /\ (NameBoundOtherEmail /\ last_call.email \notin DOMAIN last_call.pre_aliases)
          => last_call.ret = KeyOfFirstEmail
    /\ last_call.made =>
          \A n \in DOMAIN last_call.pre_names :
              /\ n \in DOMAIN name_to_email
              /\ name_to_email[n] = last_call.pre_names[n]

\* a new email under a bound name has been merged into the name's first email
C4_Witness ==
    /\ NameBoundOtherEmail
    /\ last_call.email \notin DOMAIN last_call.pre_aliases
    /\ last_call.ret # last_call.email

\* C5: a call with an email that an earlier call resolved returns the key that
\* first call returned, whatever the name (a new name, a bound name, no name).
C5_EmailKeyIsSticky ==
    last_call.made => last_call.ret = first_key[last_call.email]

\* an email that was merged into another one is passed again under a name that
\* is not bound, and resolves to the same key
C5_Witness ==
    /\ last_call.made
    /\ last_call.email \in DOMAIN last_call.pre_aliases
    /\ last_call.ret # last_call.email
    /\ last_call.name \notin DOMAIN last_call.pre_names

-----------------------------------------------------------------------------
(* The author filters (src/main.rs) *)

\* char::to_lowercase on the letters of the model's alphabet
lower(c) == CASE c = "A" -> "a" [] c = "B" -> "b" [] OTHER -> c

\* str::to_lowercase
to_lowercase(s) == [i \in 1..Len(s) |-> lower(s[i])]

\* an any() that is an all(): every filter of the set has to match
mutant_any_filter(filters, field_lower) ==
    \A i \in 1..Len(filters) : contains(field_lower, filters[i])

\* filters.iter().any(|filter| field_lower.contains(filter))
any_filter(filters, field_lower) ==
    \E i \in 1..Len(filters) : contains(field_lower, filters[i])

matches_author_filters_lowered(name, email, name_filters_lower, email_filters_lower) ==
    IF name_filters_lower # <<>>
       /\ (name = <<>> \/ ~any_filter(name_filters_lower, to_lowercase(name)))
    THEN FALSE
    ELSE IF email_filters_lower # <<>>
            /\ (email = <<>> \/ ~any_filter(email_filters_lower, to_lowercase(email)))
    THEN FALSE
    ELSE TRUE

matches_author_filters(name, email, names, emails) ==
    IF names # <<>>
       /\ (name = <<>>
           \/ ~\E i \in 1..Len(names) :
                  contains(to_lowercase(name), to_lowercase(names[i])))
    THEN FALSE
    ELSE IF emails # <<>>
            /\ (email = <<>>
                \/ ~\E i \in 1..Len(emails) :
                       contains(to_lowercase(email), to_lowercase(emails[i])))
    THEN FALSE
    ELSE TRUE

\* options.names.iter().map(|s| s.to_lowercase()).collect(), as repo_stats
\* prepares the filters for matches_author_filters_lowered
lowered_filters(filters) == [i \in 1..Len(filters) |-> to_lowercase(filters[i])]

MaxFilters == 2

AuthorNames == {<<>>, <<"a">>, <<"A">>, <<"b">>, <<"B","a">>, <<"a","b">>}
AuthorEmails == {<<>>, <<"a">>, <<"B">>, <<"b","a">>}
FilterStrings == {<<>>, <<"a">>, <<"B">>}

FilterInit ==
    /\ f_name \in AuthorNames
    /\ f_email \in AuthorEmails
    /\ f_names \in SeqsUpTo(FilterStrings, MaxFilters)
    /\ f_emails \in SeqsUpTo(FilterStrings, MaxFilters)
    /\ f_result = None
    /\ f_lowered = None
    /\ fpc = "input"

\* both filter functions applied to the same author and the same options
FilterMatch ==
    /\ fpc = "input"
    /\ f_result' = Some(matches_author_filters(f_name, f_email, f_names, f_emails))
    /\ f_lowered' = Some(matches_author_filters_lowered(f_name, f_email,
                            lowered_filters(f_names), lowered_filters(f_emails)))
    /\ fpc' = "done"
    /\ UNCHANGED <<f_name, f_email, f_names, f_emails>>
    /\ UNCHANGED notFilter

NextFilter == FilterMatch

InitFilter == FilterInit /\ ClassIdle /\ PruneIdle /\ CanonIdle /\ TimeIdle /\ StatsIdle /\ GitIdle

SpecFilter == InitFilter /\ [][NextFilter]_vars

-----------------------------------------------------------------------------
(* Claims about the author filters *)

\* the two letters are the same up to case
SameLetter(c, d) == c = d \/ {c, d} = {"a", "A"} \/ {c, d} = {"b", "B"}

\* field contains filter as a case-insensitive substring
ContainsIgnoringCase(field, filter) ==
    \E off \in 0..(Len(field) - Len(filter)) :
        \A k \in 1..Len(filter) : SameLetter(field[off + k], filter[k])

\* the filter set imposes no constraint, or some filter of it is in the field
SetAccepts(filters, field) ==
    filters = <<>> \/ \E i \in 1..Len(filters) : ContainsIgnoringCase(field, filters[i])

\* C6 (as claimed): both functions accept exactly when each non-empty filter
\* set has a filter that the field contains as a case-insensitive substring.
C6_FiltersOrWithinAndAcross ==
    fpc = "done" =>
        /\ f_result.val <=> (SetAccepts(f_names, f_name) /\ SetAccepts(f_emails, f_email))
        /\ f_lowered.val <=> f_result.val

\* C6 (amended): both functions accept exactly when, for each non-empty filter
\* set, the field is not empty and contains some filter of the set as a
\* case-insensitive substring.
C6_FiltersNonEmptyField ==
    fpc = "done" =>
        /\ f_result.val <=>
              /\ f_names # <<>> => (f_name # <<>> /\ SetAccepts(f_names, f_name))
              /\ f_emails # <<>> => (f_email # <<>> /\ SetAccepts(f_emails, f_email))
        /\ f_lowered.val <=> f_result.val

\* accepted through the second filter of one set and a filter of the other
\* set that differs from the field in case
C6_Witness ==
    /\ fpc = "done"
    /\ f_result.val
    /\ Len(f_names) = 2
    /\ f_name # <<>>
    /\ ~contains(f_name, f_names[1])
    /\ ~ContainsIgnoringCase(f_name, f_names[1])
    /\ f_emails # <<>>
    /\ \A i \in 1..Len(f_emails) : ~contains(f_email, f_emails[i])

-----------------------------------------------------------------------------
(* chrono's calendar, as resolve_time_range uses it.  A NaiveDate is         *)
(* <<year, month, day>>; a DateTime<Utc> is its timestamp, in seconds since  *)
(* the epoch.                                                                *)

SecondsPerDay == 86400

\* i64::MAX, cut to the largest integer of the model checker: every timestamp
\* of the model is below it, as every timestamp of a commit is below i64::MAX
I64_MAX == 2147483647

is_leap_year(y) == (y % 4 = 0 /\ y % 100 # 0) \/ y % 400 = 0

days_in_month(y, m) ==
    CASE m \in {1, 3, 5, 7, 8, 10, 12} -> 31
      [] m \in {4, 6, 9, 11} -> 30
      [] OTHER -> IF is_leap_year(y) THEN 29 ELSE 28

\* the number of days from 1970-01-01 to the date
days_from_civil(date) ==
    LET y == IF date[2] <= 2 THEN date[1] - 1 ELSE date[1]
        era == y \div 400
        yoe == y - era * 400
        mp == IF date[2] > 2 THEN date[2] - 3 ELSE date[2] + 9
        doy == (153 * mp + 2) \div 5 + date[3] - 1
        doe == yoe * 365 + yoe \div 4 - yoe \div 100 + doy
    IN  era * 146097 + doe - 719468

\* the date that is z days after 1970-01-01
civil_from_days(z0) ==
    LET z == z0 + 719468
        era == z \div 146097
        doe == z - era * 146097
        yoe == (doe - doe \div 1460 + doe \div 36524 - doe \div 146096) \div 365
        doy == doe - (365 * yoe + yoe \div 4 - yoe \div 100)
        mp == (5 * doy + 2) \div 153
        d == doy - (153 * mp + 2) \div 5 + 1
        m == IF mp < 10 THEN mp + 3 ELSE mp - 9
        y == yoe + era * 400 + (IF m <= 2 THEN 1 ELSE 0)
    IN  <<y, m, d>>

\* NaiveDate::and_hms_opt(h, m, s) as a UTC timestamp
and_hms(date, h, m, sec) == days_from_civil(date) * SecondsPerDay + h * 3600 + m * 60 + sec

\* DateTime::date_naive
date_naive(ts) == civil_from_days(ts \div SecondsPerDay)

\* NaiveDate::checked_sub_months: the same day of the month n months earlier,
\* clamped to the last day of that month
checked_sub_months(date, n) ==
    LET total == date[1] * 12 + (date[2] - 1) - n
        y == total \div 12
        m == (total % 12) + 1
        last == days_in_month(y, m)
    IN  <<y, m, IF date[3] > last THEN last ELSE date[3]>>

-----------------------------------------------------------------------------
(* RepoStatsOptions and resolve_time_range (src/main.rs) *)

\* the flags of the time window that are given
supplied(options) ==
    {flag \in {"days", "weeks", "months", "from"} : options[flag].some}

\* a parser that lets --from go with a relative count
mutant_clap_conflict(options) ==
    Cardinality(supplied(options) \ {"from"}) > 1

\* clap's conflicts_with_all of days, weeks, months and from: each of the four
\* conflicts with the three others, and clap refuses the command line
clap_conflict(options) ==
    \E a \in supplied(options) : \E b \in supplied(options) : a # b

\* a check of the window that lets a start after the end through
mutant_start_after_end(start_dt, reference_end_dt) == FALSE

\* start_dt_value > reference_end_dt
start_after_end(start_dt, reference_end_dt) == start_dt > reference_end_dt

plural(n) == IF n = 1 THEN "" ELSE "s"

\* resolve_time_range, with Utc::now() as an argument
resolve_time_range(options, now) ==
    LET to_given == options.to.some
        reference_end_dt == IF to_given THEN and_hms(options.to.val, 23, 59, 59) ELSE now
        end_label == IF to_given THEN <<options.to.val>> ELSE <<"latest commit">>
        end_is_latest == ~to_given
        end_ts == IF to_given THEN reference_end_dt ELSE I64_MAX
        finish(start_dt, start_label) ==
            IF start_dt.some /\ start_after_end(start_dt.val, reference_end_dt)
            THEN Err("The computed start date occurs after the end date. Check your filters.")
            ELSE Ok([start_ts |-> start_dt, end_ts |-> end_ts,
                     start_label |-> start_label, end_label |-> end_label,
                     end_is_latest |-> end_is_latest])
    IN  IF options.from.some
        THEN finish(Some(and_hms(options.from.val, 0, 0, 0)), <<options.from.val>>)
        ELSE IF options.days.some
        THEN IF options.days.val = 0
             THEN Err("--days must be greater than zero.")
             ELSE LET dt == reference_end_dt - options.days.val * SecondsPerDay
                  IN  finish(Some(dt), <<date_naive(dt), "last", options.days.val,
                                         "day" \o plural(options.days.val)>>)
        ELSE IF options.weeks.some
        THEN IF options.weeks.val = 0
             THEN Err("--weeks must be greater than zero.")
             ELSE LET dt == reference_end_dt - options.weeks.val * 7 * SecondsPerDay
                  IN  finish(Some(dt), <<date_naive(dt), "last", options.weeks.val,
                                         "week" \o plural(options.weeks.val)>>)
        ELSE IF options.months.some
        THEN IF options.months.val = 0
             THEN Err("--months must be greater than zero.")
             ELSE LET start_date == checked_sub_months(date_naive(reference_end_dt),
                                                       options.months.val)
                      dt == and_hms(start_date, 0, 0, 0)
                  IN  finish(Some(dt), <<start_date, "last", options.months.val,
                                         "month" \o plural(options.months.val)>>)
        ELSE finish(None, <<"initial commit">>)

MaxCount == 2

Counts == {None} \cup {Some(n) : n \in 0..MaxCount}

\* the dates given to --from and --to
Dates == {<<2023, 12, 31>>, <<2024, 2, 29>>, <<2024, 3, 31>>}
OptionalDates == {None} \cup {Some(d) : d \in Dates}

\* the moments at which the command runs: 2024-03-31 12:00:00 and
\* 2024-01-01 00:00:30 UTC
Nows == {and_hms(<<2024, 3, 31>>, 12, 0, 0), and_hms(<<2024, 1, 1>>, 0, 0, 30)}

TimeInit ==
    /\ t_options \in [days : Counts, weeks : Counts, months : Counts,
                      from : OptionalDates, to : OptionalDates]
    /\ t_now \in Nows
    /\ t_result = None
    /\ tpc = "args"

\* Cli::parse(): clap refuses conflicting flags before repo_stats is called
CliParse ==
    /\ tpc = "args"
    /\ IF clap_conflict(t_options)
       THEN /\ t_result' = Some(Err("the argument cannot be used with another one"))
            /\ tpc' = "done"
       ELSE /\ tpc' = "parsed"
            /\ UNCHANGED t_result
    /\ UNCHANGED <<t_options, t_now>>
    /\ UNCHANGED notTime

\* let range = resolve_time_range(options)?;
ResolveTimeRange ==
    /\ tpc = "parsed"
    /\ t_result' = Some(resolve_time_range(t_options, t_now))
    /\ tpc' = "done"
    /\ UNCHANGED <<t_options, t_now>>
    /\ UNCHANGED notTime

NextTime == CliParse \/ ResolveTimeRange

InitTime == TimeInit /\ ClassIdle /\ PruneIdle /\ CanonIdle /\ FilterIdle /\ StatsIdle /\ GitIdle

SpecTime == InitTime /\ [][NextTime]_vars

-----------------------------------------------------------------------------
(* Claims about the time window *)

\* the time window has been refused, by clap or by resolve_time_range
TimeRefused == tpc = "done" /\ ~t_result.val.ok

DateBefore(d, e) ==
    \/ d[1] < e[1]
    \/ d[1] = e[1] /\ d[2] < e[2]
    \/ d[1] = e[1] /\ d[2] = e[2] /\ d[3] < e[3]

\* C8: a --from date after the --to date is refused; the two are never
\* swapped, and every TimeRange returned with a start has start_ts <= end_ts.
C8_StartNotAfterEnd ==
    tpc = "done" =>
        /\ (t_options.from.some /\ t_options.to.some
            /\ DateBefore(t_options.to.val, t_options.from.val)) => TimeRefused
        /\ (t_result.val.ok /\ t_result.val.val.start_ts.some) =>
              /\ t_result.val.val.start_ts.val <= t_result.val.val.end_ts
              /\ t_options.from.some =>
                    date_naive(t_result.val.val.start_ts.val) = t_options.from.val
              /\ t_options.to.some =>
                    date_naive(t_result.val.val.end_ts) = t_options.to.val

\* a --from date after the --to date has been refused by the check of the window
C8_Witness ==
    /\ tpc = "done"
    /\ t_options.from.some /\ t_options.to.some
    /\ DateBefore(t_options.to.val, t_options.from.val)
    /\ t_result = Some(Err("The computed start date occurs after the end date. Check your filters."))

-----------------------------------------------------------------------------
(* The str operations repo_stats uses on a line of `git log` *)

TAB == "\t"

\* char::is_whitespace on the characters of the model's lines
is_whitespace(c) == c \in {" ", TAB}

RECURSIVE trim_start(_)
trim_start(s) ==
    IF s # <<>> /\ is_whitespace(Head(s)) THEN trim_start(Tail(s)) ELSE s

RECURSIVE trim_end(_)
trim_end(s) ==
    IF s # <<>> /\ is_whitespace(s[Len(s)])
    THEN trim_end(SubSeq(s, 1, Len(s) - 1))
    ELSE s

\* str::trim
trim(s) == trim_end(trim_start(s))

\* str::splitn(n, sep), collected: at most n parts, the last one the rest
RECURSIVE splitn(_, _, _)
splitn(s, n, sep) ==
    IF n = 1 THEN <<s>>
    ELSE LET ix == find(s, sep)
         IN  IF ix.some
             THEN <<SubSeq(s, 1, ix.val)>> \o splitn(slice_from(s, ix.val + Len(sep)), n - 1, sep)
             ELSE <<s>>

Digits == <<"0", "1", "2", "3", "4", "5", "6", "7", "8", "9">>

is_digit(c) == \E i \in 1..Len(Digits) : Digits[i] = c

digit_value(c) == (CHOOSE i \in 1..Len(Digits) : Digits[i] = c) - 1

RECURSIVE digits_value(_)
digits_value(s) ==
    IF s = <<>> THEN 0
    ELSE digits_value(SubSeq(s, 1, Len(s) - 1)) * 10 + digit_value(s[Len(s)])

\* a parse that takes what is not a number for zero
mutant_parse_i64(s) ==
    IF s # <<>> /\ \A i \in 1..Len(s) : is_digit(s[i])
    THEN Ok(digits_value(s))
    ELSE Ok(0)

\* str::parse::<i64>: an optional sign, then one or more digits, nothing else
\* (the model's numbers are too short to overflow)
parse_i64(s) ==
    LET signed == s # <<>> /\ s[1] \in {"+", "-"}
        body == IF signed THEN Tail(s) ELSE s
    IN  IF body # <<>> /\ \A i \in 1..Len(body) : is_digit(body[i])
        THEN Ok(IF signed /\ s[1] = "-" THEN 0 - digits_value(body) ELSE digits_value(body))
        ELSE Err("invalid digit found in string")

-----------------------------------------------------------------------------
(* repo_stats (src/main.rs) *)

Unknown == <<"U","n","k","n","o","w","n">>

\* the byte of a character, for the order of Strings
byte(c) ==
    CASE c = TAB -> 9 [] c = " " -> 32 [] c = "+" -> 43 [] c = "-" -> 45
      [] is_digit(c) -> 48 + digit_value(c)
      [] c = "<" -> 60 [] c = ">" -> 62 [] c = "@" -> 64
      [] c = "A" -> 65 [] c = "B" -> 66 [] c = "U" -> 85
      [] c = "a" -> 97 [] c = "b" -> 98 [] c = "k" -> 107 [] c = "n" -> 110
      [] c = "o" -> 111 [] c = "w" -> 119 [] c = "x" -> 120 [] c = "z" -> 122

\* String's Ord: a < b
RECURSIVE str_less(_, _)
str_less(a, b) ==
    IF b = <<>> THEN FALSE
    ELSE IF a = <<>> THEN TRUE
    ELSE IF byte(Head(a)) # byte(Head(b)) THEN byte(Head(a)) < byte(Head(b))
    ELSE str_less(Tail(a), Tail(b))

\* the arguments of `git log` for a TimeRange
git_log_args(r) ==
    <<"log", "--first-parent", "--pretty=format:%ct%x09%an%x09%ae">>
    \o (IF r.start_ts.some THEN <<"--since=@start_ts">> ELSE <<>>)
    \o (IF ~r.end_is_latest THEN <<"--until=@end_ts">> ELSE <<>>)
    \o <<"HEAD">>

\* the timestamp of a record
parse_timestamp(timestamp_part) == parse_i64(timestamp_part)

\* a loop that filters a record on its own name and email and canonicalizes
\* it only once it has passed
mutant_scan_line(raw_line, name_filters_lower, email_filters_lower, acc) ==
    LET trimmed == trim(raw_line)
        parts == splitn(trimmed, 3, <<TAB>>)
    IN  IF trimmed = <<>> THEN [kind |-> "skip", acc |-> acc]
        ELSE IF Len(parts) < 3 \/ parts[1] = <<>>
        THEN [kind |-> "error", err |-> "Unexpected git log output", acc |-> acc]
        ELSE IF ~parse_timestamp(parts[1]).ok
        THEN [kind |-> "error", err |-> "Failed to parse git log timestamp", acc |-> acc]
        ELSE
        LET timestamp == parse_timestamp(parts[1]).val
            email0 == trim(parts[3])
            email == IF email0 = <<>> THEN Unknown ELSE email0
            name == trim(parts[2])
        IN  IF ~matches_author_filters_lowered(name, email,
                                               name_filters_lower, email_filters_lower)
            THEN [kind |-> "filtered", acc |-> acc]
            ELSE
            LET c == canonicalize_author(email, name, acc.email_aliases, acc.name_to_email)
                canonical_email == c.ret
            IN  [kind |-> "tallied",
                 acc |-> [acc EXCEPT
                     !.email_aliases = c.email_aliases,
                     !.name_to_email = c.name_to_email,
                     !.email_to_name =
                         IF name # <<>> THEN or_insert(@, canonical_email, name) ELSE @,
                     !.latest = IF @ = None THEN Some(date_naive(timestamp)) ELSE @,
                     !.totals = insert(@, canonical_email,
                                       or_insert(@, canonical_email, 0)[canonical_email] + 1)]]

\* One iteration of the for loop of repo_stats over a line that was read, on
\* the accumulators acc (totals, email_to_name, latest, email_aliases,
\* name_to_email).  kind says how the iteration ended: "skip" (a blank line),
\* "error" (a return Err), "filtered" (continue after the filters) or "tallied".
scan_line(raw_line, name_filters_lower, email_filters_lower, acc) ==
    LET trimmed == trim(raw_line)
        parts == splitn(trimmed, 3, <<TAB>>)
    IN  IF trimmed = <<>> THEN [kind |-> "skip", acc |-> acc]
        ELSE IF Len(parts) < 3 \/ parts[1] = <<>>
        THEN [kind |-> "error", err |-> "Unexpected git log output", acc |-> acc]
        ELSE IF ~parse_timestamp(parts[1]).ok
        THEN [kind |-> "error", err |-> "Failed to parse git log timestamp", acc |-> acc]
        ELSE
        LET timestamp == parse_timestamp(parts[1]).val
            email0 == trim(parts[3])
            email == IF email0 = <<>> THEN Unknown ELSE email0
            name == trim(parts[2])
            c == canonicalize_author(email, name, acc.email_aliases, acc.name_to_email)
            canonical_email == c.ret
            acc1 == [acc EXCEPT !.email_aliases = c.email_aliases,
                                !.name_to_email = c.name_to_email]
        IN  IF ~matches_author_filters_lowered(name, canonical_email,
                                               name_filters_lower, email_filters_lower)
            THEN [kind |-> "filtered", acc |-> acc1]
            ELSE [kind |-> "tallied",
                  acc |-> [acc1 EXCEPT
                      !.email_to_name =
                          IF name # <<>> THEN or_insert(@, canonical_email, name) ELSE @,
                      \* DateTime::from_timestamp fails only outside chrono's
                      \* range of years, which the model's timestamps never leave
                      !.latest = IF @ = None THEN Some(date_naive(timestamp)) ELSE @,
                      !.totals = insert(@, canonical_email,
                                        or_insert(@, canonical_email, 0)[canonical_email] + 1)]]

\* an order that breaks ties by email descending
mutant_sorts_before(t, a, b) == t[a] > t[b] \/ (t[a] = t[b] /\ str_less(b, a))

\* author_counts.sort_by(count descending, then email ascending)
sorts_before(t, a, b) == t[a] > t[b] \/ (t[a] = t[b] /\ str_less(a, b))

RECURSIVE sort_counts(_, _)
sort_counts(t, keys) ==
    IF keys = {} THEN <<>>
    ELSE LET first == CHOOSE a \in keys : \A b \in keys \ {a} : sorts_before(t, a, b)
         IN  <<<<first, t[first]>>>> \o sort_counts(t, keys \ {first})

\* Iterator::take
take(q, n) == SubSeq(q, 1, IF n < Len(q) THEN n ELSE Len(q))

RECURSIVE sum_counts(_)
sum_counts(q) == IF q = <<>> THEN 0 ELSE Head(q)[2] + sum_counts(Tail(q))

\* the label of an entry: "name <email>" when a name is known for the email
display_of(entry, names) ==
    IF get(names, entry[1]).some
    THEN <<names[entry[1]] \o <<" ", "<">> \o entry[1] \o <<">">>, entry[2]>>
    ELSE entry

\* a renderer that draws a bar of one character for each commit
mutant_graph_line(entry) ==
    [kind |-> "graph", count |-> entry[2], name |-> <<>>, yellow |-> entry[1],
     bar |-> [i \in 1..entry[2] |-> "#"]]

\* print_author_graph: the lines it prints.  A line is "(count) author", the
\* count in green and the email in yellow; the email is what is between the
\* first '<' and the first '>' of the label, and the slice panics when that
\* '>' comes first.
graph_line(entry) ==
    LET author_display == entry[1]
        start == find(author_display, <<"<">>)
        end == find(author_display, <<">">>)
    IN  IF start.some /\ end.some
        THEN IF end.val < start.val + 1
             THEN [kind |-> "panic"]
             ELSE [kind |-> "graph", count |-> entry[2],
                   name |-> trim(SubSeq(author_display, 1, start.val)),
                   yellow |-> SubSeq(author_display, start.val + 2, end.val)]
        ELSE [kind |-> "graph", count |-> entry[2], name |-> <<>>,
              yellow |-> author_display]

print_author_graph(author_counts) ==
    IF author_counts = <<>> THEN <<>>
    ELSE <<[kind |-> "Commits by author:"]>>
         \o [i \in 1..Len(author_counts) |-> graph_line(author_counts[i])]

\* the RepoStatsOptions repo_stats is run with
NoFlags == [flag \in {"days", "weeks", "months", "from", "to", "top"} |-> None]
               @@ [names |-> <<>>, emails |-> <<>>]

StatsOptions ==
    { NoFlags,
      [NoFlags EXCEPT !.names = <<<<"A">>>>],
      [NoFlags EXCEPT !.emails = <<<<"b", "@">>>>, !.to = Some(<<2024, 3, 31>>)],
      [NoFlags EXCEPT !.top = Some(1), !.days = Some(1)],
      [NoFlags EXCEPT !.top = Some(0)],
      [NoFlags EXCEPT !.months = Some(0)] }

MaxLog == 2

\* the moment repo_stats runs at: 2024-03-31 12:00:00 UTC
StatsNow == and_hms(<<2024, 3, 31>>, 12, 0, 0)

\* the lines of `git log --pretty=format:%ct%x09%an%x09%ae`
GitLogLines ==
    { <<"1", TAB, "a", TAB, "a", "@">>,
      <<"2", TAB, "b", TAB, "b", "@">>,
      <<"3", TAB, "a", TAB, "b", "@">>,
      <<"1", TAB, TAB, "a", "@">>,                  \* no name
      <<"1", TAB, "a", TAB, "a", "@", TAB, "z">>,    \* a tab after the second
      <<" ">>,                                      \* blank
      <<"1", TAB, "a">>,                            \* two fields
      <<TAB, "a", TAB, "a", "@">>,                  \* empty timestamp
      <<"x", TAB, "a", TAB, "a", "@">> }            \* no integer

\* longer histories, in which an author has more commits than another
Histories ==
    { << <<"3", TAB, "a", TAB, "b", "@">>, <<"1", TAB, TAB, "a", "@">>,
         <<"3", TAB, "a", TAB, "b", "@">> >>,
      << <<"1", TAB, "a", TAB, "a", "@">>, <<"2", TAB, "b", TAB, "b", "@">>,
         <<"2", TAB, "b", TAB, "b", "@">> >> }

Frames == 4

accumulators ==
    [totals |-> totals, email_to_name |-> email_to_name,
     latest |-> latest_commit_date_in_range,
     email_aliases |-> email_aliases, name_to_email |-> name_to_email]

StatsInit ==
    /\ s_options \in StatsOptions
    /\ s_now = StatsNow
    /\ range = None
    /\ git_args = <<>>
    /\ log_lines = <<>>
    /\ spos = 0
    /\ totals = <<>>
    /\ email_to_name = <<>>
    /\ email_aliases = <<>>
    /\ name_to_email = <<>>
    /\ latest_commit_date_in_range = None
    /\ stdout_lines = <<>>
    /\ stats_result = None
    /\ spc = "start"
    /\ after_meter = "done"
    /\ meter_done = FALSE
    /\ meter_pc = "unspawned"
    /\ meter_i = 0
    /\ stderr_line = <<"clear">>
    /\ last_call = NoCall
    /\ first_key = <<>>
    /\ ncalls = 0

unchangedLoop == <<totals, email_to_name, latest_commit_date_in_range,
                   email_aliases, name_to_email>>

\* an early return that leaves the meter running
mutant_ReturnErr(message) ==
    /\ stats_result' = Some(Err(message))
    /\ after_meter' = "done"
    /\ spc' = "done"

\* a return Err(message) before progress.finish(): progress is dropped
ReturnErr(message) ==
    /\ stats_result' = Some(Err(message))
    /\ after_meter' = "done"
    /\ spc' = "meter_store"

\* let progress = start_delayed_progress_meter(..): the thread is spawned
StatsStartMeter ==
    /\ spc = "start"
    /\ meter_pc' = "sleeping"
    /\ spc' = "validate"
    /\ UNCHANGED <<s_options, s_now, range, git_args, log_lines, spos, stdout_lines,
                   stats_result, after_meter, meter_done, meter_i, stderr_line>>
    /\ UNCHANGED unchangedLoop
    /\ UNCHANGED notStats

\* resolve_time_range(options)?, the check of --top, and the arguments of git
StatsValidate ==
    /\ spc = "validate"
    /\ LET r == resolve_time_range(s_options, s_now)
       IN  IF ~r.ok
           THEN ReturnErr(r.err) /\ UNCHANGED <<range, git_args>>
           ELSE IF s_options.top = Some(0)
           THEN /\ ReturnErr("--top must be greater than zero.")
                /\ range' = Some(r.val)
                /\ UNCHANGED git_args
           ELSE /\ range' = Some(r.val)
                /\ git_args' = git_log_args(r.val)
                /\ spc' = "spawn"
                /\ UNCHANGED <<stats_result, after_meter>>
    /\ UNCHANGED <<s_options, s_now, log_lines, spos, stdout_lines>>
    /\ UNCHANGED unchangedLoop
    /\ UNCHANGED meterVars
    /\ UNCHANGED notStats

\* Command::new("git").args(git_args)...spawn()
StatsSpawn ==
    /\ spc = "spawn"
    /\ \/ /\ log_lines' \in SeqsUpTo(GitLogLines, MaxLog) \cup Histories
          /\ spc' = "read"
          /\ UNCHANGED <<stats_result, after_meter>>
       \/ /\ ReturnErr("collect author stats failed to start")
          /\ UNCHANGED log_lines
    /\ UNCHANGED <<s_options, s_now, range, git_args, spos, stdout_lines>>
    /\ UNCHANGED unchangedLoop
    /\ UNCHANGED meterVars
    /\ UNCHANGED notStats

\* one iteration of the for loop over a line that was read
StatsLine ==
    /\ spc = "read"
    /\ spos < Len(log_lines)
    /\ LET r == scan_line(log_lines[spos + 1],
                          lowered_filters(s_options.names),
                          lowered_filters(s_options.emails), accumulators)
       IN  /\ totals' = r.acc.totals
           /\ email_to_name' = r.acc.email_to_name
           /\ latest_commit_date_in_range' = r.acc.latest
           /\ email_aliases' = r.acc.email_aliases
           /\ name_to_email' = r.acc.name_to_email
           /\ IF r.kind = "error"
              THEN ReturnErr(r.err)
              ELSE UNCHANGED <<stats_result, after_meter, spc>>
    /\ spos' = spos + 1
    /\ UNCHANGED <<s_options, s_now, range, git_args, log_lines, stdout_lines>>
    /\ UNCHANGED meterVars
    /\ UNCHANGED notStats

\* reader.lines() yields an Err: the line could not be read
StatsReadError ==
    /\ spc = "read"
    /\ spos < Len(log_lines)
    /\ ReturnErr("Failed to read git log output")
    /\ spos' = spos + 1
    /\ UNCHANGED <<s_options, s_now, range, git_args, log_lines, stdout_lines>>
    /\ UNCHANGED unchangedLoop
    /\ UNCHANGED meterVars
    /\ UNCHANGED notStats

\* child.wait() after the last line, and the check of its status
StatsWait ==
    /\ spc = "read"
    /\ spos = Len(log_lines)
    /\ \E outcome \in {"wait_error", "exit_zero", "exit_nonzero"} :
          CASE outcome = "wait_error" -> ReturnErr("collect author stats failed to wait")
            [] outcome = "exit_nonzero" -> ReturnErr("collect author stats failed with exit code")
            [] outcome = "exit_zero" ->
                  /\ after_meter' = "report"
                  /\ spc' = "meter_store"
                  /\ UNCHANGED stats_result
    /\ UNCHANGED <<s_options, s_now, range, git_args, log_lines, spos, stdout_lines>>
    /\ UNCHANGED unchangedLoop
    /\ UNCHANGED meterVars
    /\ UNCHANGED notStats

\* ProgressMeter::finish and Drop::drop begin alike: done.store(true)
MeterStore ==
    /\ spc = "meter_store"
    /\ meter_done' = TRUE
    /\ spc' = "meter_join"
    /\ UNCHANGED <<s_options, s_now, range, git_args, log_lines, spos, stdout_lines,
                   stats_result, after_meter, meter_pc, meter_i, stderr_line>>
    /\ UNCHANGED unchangedLoop
    /\ UNCHANGED notStats

\* handle.join() returns once the thread has exited; then the line is cleared.
\* That ends drop; finish is followed by the drop of its self.
MeterJoin ==
    /\ spc = "meter_join"
    /\ meter_pc = "exited"
    /\ stderr_line' = <<"clear">>
    /\ spc' = IF after_meter = "report" THEN "finish_drop" ELSE "done"
    /\ UNCHANGED <<s_options, s_now, range, git_args, log_lines, spos, stdout_lines,
                   stats_result, after_meter, meter_done, meter_pc, meter_i>>
    /\ UNCHANGED unchangedLoop
    /\ UNCHANGED notStats

\* Drop::drop at the end of finish: the store again, no handle left to join,
\* the line cleared again
MeterDropAfterFinish ==
    /\ spc = "finish_drop"
    /\ meter_done' = TRUE
    /\ stderr_line' = <<"clear">>
    /\ spc' = "report"
    /\ UNCHANGED <<s_options, s_now, range, git_args, log_lines, spos, stdout_lines,
                   stats_result, after_meter, meter_pc, meter_i>>
    /\ UNCHANGED unchangedLoop
    /\ UNCHANGED notStats

\* the thread: sleep(delay) is over; if done { return }
MeterWake ==
    /\ meter_pc = "sleeping"
    /\ meter_pc' = IF meter_done THEN "exited" ELSE "check"
    /\ UNCHANGED <<meter_done, meter_i, stderr_line>>
    /\ UNCHANGED statsVars
    /\ UNCHANGED unchangedLoop
    /\ UNCHANGED notStats

\* the thread: while !done
MeterCheck ==
    /\ meter_pc = "check"
    /\ meter_pc' = IF meter_done THEN "exited" ELSE "write"
    /\ UNCHANGED <<meter_done, meter_i, stderr_line>>
    /\ UNCHANGED statsVars
    /\ UNCHANGED unchangedLoop
    /\ UNCHANGED notStats

\* the thread: write the spinner, i = i.wrapping_add(1), sleep(120 ms)
MeterWrite ==
    /\ meter_pc = "write"
    /\ stderr_line' = <<"spinner", meter_i % Frames>>
    /\ meter_i' = (meter_i + 1) % Frames
    /\ meter_pc' = "check"
    /\ UNCHANGED meter_done
    /\ UNCHANGED statsVars
    /\ UNCHANGED unchangedLoop
    /\ UNCHANGED notStats

\* after progress.finish(): nothing found, or the statistics and the graph
StatsReport ==
    /\ spc = "report"
    /\ IF totals = <<>>
       THEN stdout_lines' = Append(stdout_lines,
                [kind |-> "No first-parent commits found",
                 start_label |-> range.val.start_label,
                 end_label |-> range.val.end_label])
       ELSE LET author_counts == sort_counts(totals, DOMAIN totals)
                total_commits == sum_counts(author_counts)
                unique_authors == Len(author_counts)
                display_author_counts ==
                    IF s_options.top.some THEN take(author_counts, s_options.top.val)
                    ELSE author_counts
                resolved_end_label ==
                    IF range.val.end_is_latest
                    THEN IF latest_commit_date_in_range.some
                         THEN <<latest_commit_date_in_range.val, "latest commit">>
                         ELSE <<"latest commit">>
                    ELSE range.val.end_label
                display_author_counts_with_names ==
                    [i \in 1..Len(display_author_counts) |->
                        display_of(display_author_counts[i], email_to_name)]
            IN  stdout_lines' = stdout_lines
                    \o << [kind |-> "Repository Statistics"],
                          [kind |-> "Range", start_label |-> range.val.start_label,
                           end_label |-> resolved_end_label],
                          [kind |-> "Total commits", count |-> total_commits],
                          [kind |-> "Authors", count |-> unique_authors] >>
                    \o print_author_graph(display_author_counts_with_names)
    /\ stats_result' = Some(Ok("unit"))
    /\ spc' = "done"
    /\ UNCHANGED <<s_options, s_now, range, git_args, log_lines, spos, after_meter>>
    /\ UNCHANGED unchangedLoop
    /\ UNCHANGED meterVars
    /\ UNCHANGED notStats

NextStats ==
    \/ StatsStartMeter
    \/ StatsValidate
    \/ StatsSpawn
    \/ StatsLine
    \/ StatsReadError
    \/ StatsWait
    \/ MeterStore
    \/ MeterJoin
    \/ MeterDropAfterFinish
    \/ MeterWake
    \/ MeterCheck
    \/ MeterWrite
    \/ StatsReport

InitStats == StatsInit /\ ClassIdle /\ PruneIdle /\ FilterIdle /\ TimeIdle /\ GitIdle

SpecStats == InitStats /\ [][NextStats]_vars

-----------------------------------------------------------------------------
(* Claims about the records repo_stats reads *)

\* the positions of the tabs of l
TabPositions(l) == {i \in 1..Len(l) : l[i] = TAB}

\* l is an integer: an optional sign and one or more digits
IsInteger(l) ==
    \E from \in {1, 2} :
        /\ from = 2 => (Len(l) >= 1 /\ l[1] \in {"+", "-"})
        /\ Len(l) >= from
        /\ \A i \in from..Len(l) : is_digit(l[i])

\* the text of l before its first tab (all of l when it has none)
FirstField(l) ==
    SubSeq(l, 1, IF TabPositions(l) = {} THEN Len(l)
                 ELSE (CHOOSE i \in TabPositions(l) : \A j \in TabPositions(l) : i <= j) - 1)

\* l holds only blanks and tabs
IsBlank(l) == \A i \in 1..Len(l) : l[i] \in {" ", TAB}

\* l without its leading and trailing blanks and tabs
Stripped(l) ==
    LET inked == {i \in 1..Len(l) : l[i] \notin {" ", TAB}}
    IN  IF inked = {} THEN <<>>
        ELSE SubSeq(l, CHOOSE i \in inked : \A j \in inked : i <= j,
                       CHOOSE i \in inked : \A j \in inked : i >= j)

\* a malformed record as the claim has it: not three tab-separated fields, or
\* a timestamp that is empty or not an integer
Malformed(l) ==
    \/ Cardinality(TabPositions(l)) # 2
    \/ ~IsInteger(FirstField(l))

\* a line that is not blank and, once stripped, has fewer than three
\* tab-separated fields or a first field that is not an integer
BadRecord(l) ==
    /\ ~IsBlank(l)
    /\ \/ Cardinality(TabPositions(Stripped(l))) < 2
       \/ ~IsInteger(FirstField(Stripped(l)))

\* repo_stats failed at the line it took last and has printed nothing
FailedAt(j) ==
    /\ j = spos
    /\ stats_result.some
    /\ ~stats_result.val.ok
    /\ stdout_lines = <<>>

\* the number of commits tallied
Tallied == sum_counts([i \in 1..Cardinality(DOMAIN totals) |->
                          sort_counts(totals, DOMAIN totals)[i]])

\* C9 (as claimed): a malformed record makes repo_stats fail at that record:
\* it is not skipped, nothing after it is taken, nothing is printed.
C9_MalformedFails ==
    \A j \in 1..spos : Malformed(log_lines[j]) => FailedAt(j)

\* C9 (amended): a line that is not blank and, once trimmed, has fewer than
\* three tab-separated fields or a first field that is not an integer makes
\* repo_stats fail at that line: it is not skipped or tallied, no later line
\* is taken, and nothing is printed.
C9_BadRecordFails ==
    /\ \A j \in 1..spos : BadRecord(log_lines[j]) => FailedAt(j)
    /\ Tallied <= Cardinality({j \in 1..spos : ~BadRecord(log_lines[j])})

\* repo_stats has ended with an error at a bad first line, with a good record
\* after it that was never taken
C9_Witness ==
    /\ spc = "done"
    /\ spos = 1
    /\ Len(log_lines) > 1
    /\ BadRecord(log_lines[1])
    /\ ~Malformed(log_lines[2])
    /\ totals = <<>>
    /\ stats_result = Some(Err("Failed to parse git log timestamp"))

\* the meter is stopped: the flag is set, the thread has exited and the
\* terminal's line is clear
MeterStopped ==
    /\ meter_done
    /\ meter_pc = "exited"
    /\ stderr_line = <<"clear">>

\* C15: once repo_stats is past progress.finish() or has returned, by any
\* path, the meter is stopped; the flag, once set, stays set; and the drop that
\* follows finish changes nothing.
C15_MeterStoppedOnEveryExit ==
    /\ [](spc \in {"finish_drop", "report", "done"} => MeterStopped)
    /\ [][meter_done => meter_done']_vars
    /\ [][spc = "finish_drop" => meterVars' = meterVars]_vars

\* repo_stats has returned an error from its loop after the meter had written a
\* spinner frame
C15_Witness ==
    /\ spc = "done"
    /\ spos > 0
    /\ stats_result.some
    /\ ~stats_result.val.ok
    /\ meter_i > 0
    /\ MeterStopped

\* the lines print_author_graph printed, one for each entry
GraphLines == SelectSeq(stdout_lines, LAMBDA l : l.kind = "graph")

\* the bar of a printed line
BarOf(l) == IF "bar" \in DOMAIN l THEN l.bar ELSE <<>>

\* repo_stats has printed its report
Reported == spc = "done" /\ stats_result = Some(Ok("unit"))

Observed(l) ==
    LET parts == splitn(trim(l), 3, <<TAB>>)
    IN  [name |-> trim(parts[2]),
         email |-> IF trim(parts[3]) = <<>> THEN Unknown ELSE trim(parts[3])]

\* this step is an iteration of the loop over a record that is well formed
TakesRecord ==
    /\ spos' = spos + 1
    /\ stats_result' = None
    /\ ~IsBlank(log_lines[spos'])
    /\ ~BadRecord(log_lines[spos'])

\* the filters of the options accept this name and this email
Accepts(name, email) ==
    matches_author_filters(name, email, s_options.names, s_options.emails)

\* this step leaves the tallies alone
TalliesUnchanged ==
    /\ totals' = totals
    /\ email_to_name' = email_to_name
    /\ latest_commit_date_in_range' = latest_commit_date_in_range

\* this step adds one commit to the tally of key
TalliesOne(key) ==
    /\ key \in DOMAIN totals'
    /\ totals'[key] = (IF key \in DOMAIN totals THEN totals[key] ELSE 0) + 1
    /\ DOMAIN totals' = DOMAIN totals \cup {key}
    /\ \A other \in DOMAIN totals \ {key} : totals'[other] = totals[other]

LabelOf(l) ==
    IF l.name = <<>> THEN l.yellow
    ELSE l.name \o <<" ", "<">> \o l.yellow \o <<">">>

\* the emails with a tally that the graph does not show
NotShown == DOMAIN totals \ {GraphLines[i].yellow : i \in 1..Len(GraphLines)}

\* C19 (as claimed): the printed entries are in the order of their counts,
\* highest first, and entries with the same count are in the ascending order
\* of their labels.
C19_SortedByCountThenLabel ==
    Reported =>
        \A i, j \in 1..Len(GraphLines) :
            i < j =>
                \/ GraphLines[i].count > GraphLines[j].count
                \/ /\ GraphLines[i].count = GraphLines[j].count
                   /\ str_less(LabelOf(GraphLines[i]), LabelOf(GraphLines[j]))

\* C19 (amended): the printed entries are in the order of their counts,
\* highest first, and entries with the same count are in the ascending order
\* of their canonical emails; with --top N they are the first N of that order,
\* every entry left out coming after each of them.
C19_SortedByCountThenEmail ==
    Reported =>
        /\ \A i, j \in 1..Len(GraphLines) :
              i < j =>
                  \/ GraphLines[i].count > GraphLines[j].count
                  \/ /\ GraphLines[i].count = GraphLines[j].count
                     /\ str_less(GraphLines[i].yellow, GraphLines[j].yellow)
        /\ NotShown # {} =>
              /\ s_options.top.some
              /\ Len(GraphLines) = s_options.top.val
        /\ \A k \in NotShown : \A i \in 1..Len(GraphLines) :
              \/ GraphLines[i].count > totals[k]
              \/ /\ GraphLines[i].count = totals[k]
                 /\ str_less(GraphLines[i].yellow, k)

\* repo_stats has printed two authors with the same count, the first with the
\* lower email and the higher label
C19_Witness ==
    /\ Reported
    /\ Len(GraphLines) = 2
    /\ GraphLines[1].count = GraphLines[2].count
    /\ str_less(GraphLines[1].yellow, GraphLines[2].yellow)
    /\ str_less(LabelOf(GraphLines[2]), LabelOf(GraphLines[1]))

-----------------------------------------------------------------------------
(* git_command_stream (src/git.rs) *)

MaxStream == 2

\* a line of a pipe: its text, and whether its bytes are valid UTF-8
\* (BufRead::lines yields an Err for a line that is not)
OutLines == { [text |-> "o1", utf8 |-> TRUE], [text |-> "o2", utf8 |-> TRUE],
              [text |-> "o3", utf8 |-> FALSE] }
ErrLines == { [text |-> "e1", utf8 |-> TRUE] }

\* a channel that hands the newest line over first
mutant_send(chan, l) == <<l>> \o chan

\* mpsc::Sender::send: the channel is a queue
send(chan, l) == Append(chan, l)

\* one step of reader.lines().for_each(..): a line that was read is sent, a
\* line that could not be read is dropped
forward(chan, l) == IF l.utf8 THEN send(chan, l.text) ELSE chan

StreamInit ==
    /\ proc_out \in SeqsUpTo(OutLines, MaxStream)
    /\ proc_err \in SeqsUpTo(ErrLines, MaxStream)
    /\ proc_pc = "none"
    /\ exit_status = "none"
    /\ out_pc = "unspawned"
    /\ err_pc = "unspawned"
    /\ out_pos = 0
    /\ err_pos = 0
    /\ channel = <<>>
    /\ received = <<>>
    /\ consumer_pc = "none"
    /\ wait_result = None
    /\ stream_result = None

\* git_command_stream: spawn the child with both pipes, make the channel,
\* spawn the two threads, return the iterator
StreamCall ==
    /\ stream_result = None
    /\ \/ /\ proc_pc' = "running"
          /\ out_pc' = "reading"
          /\ err_pc' = "reading"
          /\ consumer_pc' = "iterating"
          /\ stream_result' = Some(Ok("iterator"))
       \/ /\ stream_result' = Some(Err("failed to start"))
          /\ UNCHANGED <<proc_pc, out_pc, err_pc, consumer_pc>>
    /\ UNCHANGED <<proc_out, proc_err, exit_status, out_pos, err_pos, channel,
                   received, wait_result>>
    /\ UNCHANGED notStream

\* the child has written its output and closes its ends of the pipes
ProcClosePipes ==
    /\ proc_pc = "running"
    /\ proc_pc' = "pipes_closed"
    /\ UNCHANGED <<proc_out, proc_err, exit_status, out_pc, err_pc, out_pos, err_pos,
                   channel, received, consumer_pc, wait_result, stream_result>>
    /\ UNCHANGED notStream

\* the child exits
ProcExit ==
    /\ proc_pc = "pipes_closed"
    /\ proc_pc' = "exited"
    /\ exit_status' \in {"zero", "nonzero"}
    /\ UNCHANGED <<proc_out, proc_err, out_pc, err_pc, out_pos, err_pos,
                   channel, received, consumer_pc, wait_result, stream_result>>
    /\ UNCHANGED notStream

\* the stdout thread takes the next line of stdout
OutRead ==
    /\ out_pc = "reading"
    /\ out_pos < Len(proc_out)
    /\ channel' = forward(channel, proc_out[out_pos + 1])
    /\ out_pos' = out_pos + 1
    /\ UNCHANGED <<proc_out, proc_err, proc_pc, exit_status, out_pc, err_pc, err_pos,
                   received, consumer_pc, wait_result, stream_result>>
    /\ UNCHANGED notStream

\* the stdout thread reaches the end of stdout: its closure ends and drops sender
OutEof ==
    /\ out_pc = "reading"
    /\ out_pos = Len(proc_out)
    /\ proc_pc \in {"pipes_closed", "exited"}
    /\ out_pc' = "exited"
    /\ UNCHANGED <<proc_out, proc_err, proc_pc, exit_status, err_pc, out_pos, err_pos,
                   channel, received, consumer_pc, wait_result, stream_result>>
    /\ UNCHANGED notStream

\* the stderr thread takes the next line of stderr
ErrRead ==
    /\ err_pc = "reading"
    /\ err_pos < Len(proc_err)
    /\ channel' = forward(channel, proc_err[err_pos + 1])
    /\ err_pos' = err_pos + 1
    /\ UNCHANGED <<proc_out, proc_err, proc_pc, exit_status, out_pc, err_pc, out_pos,
                   received, consumer_pc, wait_result, stream_result>>
    /\ UNCHANGED notStream

\* the stderr thread reaches the end of stderr and goes on to child.wait()
ErrEof ==
    /\ err_pc = "reading"
    /\ err_pos = Len(proc_err)
    /\ proc_pc \in {"pipes_closed", "exited"}
    /\ err_pc' = "waiting"
    /\ UNCHANGED <<proc_out, proc_err, proc_pc, exit_status, out_pc, out_pos, err_pos,
                   channel, received, consumer_pc, wait_result, stream_result>>
    /\ UNCHANGED notStream

\* let _ = child.wait(): it returns once the child has exited and what it
\* returns goes nowhere; the closure ends and drops sender_clone
ErrWait ==
    /\ err_pc = "waiting"
    /\ proc_pc = "exited"
    /\ wait_result' = Some(exit_status)
    /\ err_pc' = "exited"
    /\ UNCHANGED <<proc_out, proc_err, proc_pc, exit_status, out_pc, out_pos, err_pos,
                   channel, received, consumer_pc, stream_result>>
    /\ UNCHANGED notStream

\* the channel is closed: both senders are dropped
closed == out_pc = "exited" /\ err_pc = "exited"

\* receiver.recv().ok() is Some(line)
ConsumerRecv ==
    /\ consumer_pc = "iterating"
    /\ channel # <<>>
    /\ received' = Append(received, Head(channel))
    /\ channel' = Tail(channel)
    /\ UNCHANGED <<proc_out, proc_err, proc_pc, exit_status, out_pc, err_pc, out_pos,
                   err_pos, consumer_pc, wait_result, stream_result>>
    /\ UNCHANGED notStream

\* receiver.recv() is an Err, the channel being empty and closed: the iterator
\* is at its end
ConsumerEnd ==
    /\ consumer_pc = "iterating"
    /\ channel = <<>>
    /\ closed
    /\ consumer_pc' = "ended"
    /\ UNCHANGED <<proc_out, proc_err, proc_pc, exit_status, out_pc, err_pc, out_pos,
                   err_pos, channel, received, wait_result, stream_result>>
    /\ UNCHANGED notStream

NextStream ==
    \/ StreamCall
    \/ ProcClosePipes
    \/ ProcExit
    \/ OutRead
    \/ OutEof
    \/ ErrRead
    \/ ErrEof
    \/ ErrWait
    \/ ConsumerRecv
    \/ ConsumerEnd

InitStream == StreamInit /\ ClassIdle /\ PruneIdle /\ CanonIdle /\ FilterIdle /\ TimeIdle
              /\ StatsIdle /\ SaveIdle

SpecStream == InitStream /\ [][NextStream]_vars

\* the threads and the consumer keep running, and a child that has closed its
\* pipes exits
FairSpecStream ==
    /\ InitStream
    /\ [][NextStream]_vars
    /\ WF_vars(ProcClosePipes)
    /\ WF_vars(ProcExit)
    /\ WF_vars(OutRead)
    /\ WF_vars(OutEof)
    /\ WF_vars(ErrRead)
    /\ WF_vars(ErrEof)
    /\ WF_vars(ErrWait)
    /\ WF_vars(ConsumerRecv)
    /\ WF_vars(ConsumerEnd)

-----------------------------------------------------------------------------
(* Claims about git_command_stream *)

OutTexts == {l.text : l \in OutLines}
ErrTexts == {l.text : l \in ErrLines}

\* the lines of q that belong to the stream with the texts T
Project(q, T) == SelectSeq(q, LAMBDA x : x \in T)

\* the texts of the lines of a pipe
Texts(q) == [i \in 1..Len(q) |-> q[i].text]

\* the texts of the lines of a pipe that are valid UTF-8
Readable(q) == Texts(SelectSeq(q, LAMBDA l : l.utf8))

IsPrefix(a, b) == Len(a) <= Len(b) /\ a = SubSeq(b, 1, Len(a))

\* the child has closed both pipes
PipesClosed == proc_pc \in {"pipes_closed", "exited"}

\* C13 (as claimed): when the iteration ends the consumer has received, of
\* each stream, exactly its lines in their order; the iteration ends only
\* after both threads have finished; and it does end once the child has closed
\* both pipes.
C13_EveryLineInOrder ==
    /\ [](consumer_pc = "ended" =>
            /\ Project(received, OutTexts) = Texts(proc_out)
            /\ Project(received, ErrTexts) = Texts(proc_err)
            /\ closed)
    /\ PipesClosed ~> (consumer_pc = "ended")

\* C13 (amended): at any time the consumer has received, of each stream, a
\* prefix of its lines that are valid UTF-8, in their order, and all of them
\* when the iteration ends; the iteration ends only after both threads have
\* finished, the stderr thread having waited for the child; and it does end
\* once the child has closed both pipes and exited.
C13_ReadableLinesInOrder ==
    /\ [](/\ IsPrefix(Project(received, OutTexts), Readable(proc_out))
          /\ IsPrefix(Project(received, ErrTexts), Readable(proc_err))
          /\ Len(received) = Len(Project(received, OutTexts))
                               + Len(Project(received, ErrTexts)))
    /\ [](consumer_pc = "ended" =>
            /\ Project(received, OutTexts) = Readable(proc_out)
            /\ Project(received, ErrTexts) = Readable(proc_err)
            /\ closed
            /\ wait_result # None)
    /\ PipesClosed ~> (consumer_pc = "ended")

\* the iteration has ended after the consumer got a line of stderr between two
\* lines of stdout or a line of stdout between two lines of stderr, while a
\* line that is not valid UTF-8 was in a pipe
C13_Witness ==
    /\ consumer_pc = "ended"
    /\ \E i, j \in 1..Len(received) :
          i < j /\ received[i] \in ErrTexts /\ received[j] \in OutTexts
    /\ \E i, j \in 1..Len(received) :
          i < j /\ received[i] \in OutTexts /\ received[j] \in ErrTexts
    /\ \E i \in 1..Len(proc_out) : ~proc_out[i].utf8

\* C14 (as claimed): once the iteration has ended after a child that exited
\* with a nonzero status, the caller has been given an error.
C14_NonzeroExitSurfaced ==
    (consumer_pc = "ended" /\ exit_status = "nonzero") =>
        (stream_result.some /\ ~stream_result.val.ok)

-----------------------------------------------------------------------------
(* Claims about highlight_pruned_branch_line *)

\* w is in h at the index i
Occurs(h, w, i) ==
    /\ i >= 1
    /\ i + Len(w) - 1 <= Len(h)
    /\ SubSeq(h, i, i + Len(w) - 1) = w

\* the indices of h that belong to a start or a reset marker
MarkerIndices(h) ==
    {k \in 1..Len(h) :
        \E i \in (k - Len(RED) + 1)..k :
                        \/ Occurs(h, RED, i) /\ k < i + Len(RED)
                        \/ Occurs(h, RESET, i) /\ k < i + Len(RESET)}

\* h without its markers
Unmarked(h) ==
    LET kept == (1..Len(h)) \ MarkerIndices(h)
    IN  [k \in 1..Cardinality(kept) |-> h[Nth(kept, k)]]

\* in h, which is l with markers put in, each occurrence of w and nothing
\* else is between a start and a reset marker
WrapsEach(h, l, w) ==
    /\ Unmarked(h) = l
    /\ \A i \in 1..Len(h) :
          Occurs(h, RED, i) => Occurs(h, w \o RESET, i + Len(RED))
    /\ w # <<>> =>
          \A i \in (1..Len(h)) \ MarkerIndices(h) :
              Occurs(h, w, i) => Occurs(h, RED, i - Len(RED))
    /\ w = <<>> =>
          Cardinality({i \in 1..Len(h) : Occurs(h, RED, i)}) = Len(l) + 1

\* the line has "origin/<branch>" in it
HasRemoteBranch == \E i \in 1..Len(line) : Occurs(line, ORIGIN \o hbranch, i)

\* C16: for a line with "origin/<branch>" in it, the result is the line with
\* that remote-qualified text, wherever it is, between the start and reset
\* markers and nothing else marked; only for a line without it, the result is
\* the line with the bare branch name marked.
C16_HighlightsRemoteBranchOnly ==
    cpc = "done" =>
        IF HasRemoteBranch
        THEN WrapsEach(highlighted, line, ORIGIN \o hbranch)
        ELSE WrapsEach(highlighted, line, hbranch)

\* a line with "origin/a" and another "a" before it was highlighted for the
\* branch a
C16_Witness ==
    /\ cpc = "done"
    /\ hbranch = <<"a">>
    /\ HasRemoteBranch
    /\ \E i \in 1..Len(line) :
          /\ Occurs(line, hbranch, i)
          /\ ~Occurs(line, ORIGIN \o hbranch, i - Len(ORIGIN))
    /\ highlighted # line

-----------------------------------------------------------------------------
(* save and commit (src/main.rs) over git_commands_status (src/git.rs) *)

\* the CommitOptions: --all, --update and the words of the message
CommitOptionsSet ==
    [all : BOOLEAN, update : BOOLEAN, message : {<<>>, <<"fix">>, <<"fix", "it">>}]

\* commit's list of commands
commit_commands(options) ==
    LET add_type == IF options.update THEN Some("--update")
                    ELSE IF options.all THEN Some("--all")
                    ELSE None
        message == IF options.message = <<>> THEN <<"lk commit">> ELSE options.message
    IN  (IF add_type.some
         THEN <<[name |-> "add files", args |-> <<"add", add_type.val>>]>>
         ELSE <<>>)
        \o <<[name |-> "commit", args |-> <<"commit", "--message", message>>]>>

\* how git_current_branch can end: git could not be run, it printed nothing,
\* it printed "HEAD", it printed the name of a branch
BranchOutcomes == {"spawn_error", "no_output", "head", "branch"}

SaveInit ==
    /\ sv_entry \in {"save", "commit"}
    /\ sv_options \in CommitOptionsSet
    /\ sv_pc = "start"
    /\ sv_commands = <<>>
    /\ sv_ix = 1
    /\ sv_ran = <<>>
    /\ sv_result = None

\* commit builds its commands and calls git_commands_status
SaveBuild ==
    /\ sv_pc = "start"
    /\ sv_commands' = commit_commands(sv_options)
    /\ sv_pc' = "commands"
    /\ UNCHANGED <<sv_entry, sv_options, sv_ix, sv_ran, sv_result>>
    /\ UNCHANGED notSave

\* one step of try_for_each: git_command_status(name, cmd), and the return of
\* commit and of save on an Err
SaveRunCommand ==
    /\ sv_pc = "commands"
    /\ sv_ix <= Len(sv_commands)
    /\ \E outcome \in Outcomes :
          /\ sv_ran' = Append(sv_ran, [name |-> sv_commands[sv_ix].name,
                                       outcome |-> outcome])
          /\ IF git_command_status(outcome).ok
             THEN UNCHANGED <<sv_pc, sv_result>>
             ELSE /\ sv_result' = Some(Err("failed to run"))
                  /\ sv_pc' = "done"
    /\ sv_ix' = sv_ix + 1
    /\ UNCHANGED <<sv_entry, sv_options, sv_commands>>
    /\ UNCHANGED notSave

\* git_commands_status returns Ok: commit returns Ok, save goes on to push_branch
SaveCommitted ==
    /\ sv_pc = "commands"
    /\ sv_ix > Len(sv_commands)
    /\ IF sv_entry = "commit"
       THEN /\ sv_result' = Some(Ok("unit"))
            /\ sv_pc' = "done"
       ELSE /\ sv_pc' = "current_branch"
            /\ UNCHANGED sv_result
    /\ UNCHANGED <<sv_entry, sv_options, sv_commands, sv_ix, sv_ran>>
    /\ UNCHANGED notSave

\* push_branch: git_current_branch()? and the test for a detached HEAD
SaveCurrentBranch ==
    /\ sv_pc = "current_branch"
    /\ \E outcome \in BranchOutcomes :
          CASE outcome = "spawn_error" ->
                  /\ sv_result' = Some(Err("get current branch failed"))
                  /\ sv_pc' = "done"
            [] outcome = "no_output" ->
                  /\ sv_result' = Some(Err("No output from git rev-parse"))
                  /\ sv_pc' = "done"
            [] outcome = "head" ->
                  /\ sv_result' = Some(Err("HEAD is currently detached, no branch to push!"))
                  /\ sv_pc' = "done"
            [] outcome = "branch" ->
                  /\ sv_pc' = "push"
                  /\ UNCHANGED sv_result
    /\ UNCHANGED <<sv_entry, sv_options, sv_commands, sv_ix, sv_ran>>
    /\ UNCHANGED notSave

\* push_branch: git_command_status("push", args)?; Ok(())
SavePush ==
    /\ sv_pc = "push"
    /\ \E outcome \in Outcomes :
          /\ sv_ran' = Append(sv_ran, [name |-> "push", outcome |-> outcome])
          /\ sv_result' = IF git_command_status(outcome).ok
                          THEN Some(Ok("unit"))
                          ELSE Some(Err("failed to run"))
    /\ sv_pc' = "done"
    /\ UNCHANGED <<sv_entry, sv_options, sv_commands, sv_ix>>
    /\ UNCHANGED notSave

NextSave ==
    \/ SaveBuild
    \/ SaveRunCommand
    \/ SaveCommitted
    \/ SaveCurrentBranch
    \/ SavePush

InitSave == SaveInit /\ ClassIdle /\ PruneIdle /\ CanonIdle /\ FilterIdle /\ TimeIdle
            /\ StatsIdle /\ StreamIdle

SpecSave == InitSave /\ [][NextSave]_vars

-----------------------------------------------------------------------------
(* Claims about git_commands_status *)

\* the names of the commands in the order save runs them
CommandOrder == <<"add files", "commit", "push">>

Rank(name) == CHOOSE i \in 1..Len(CommandOrder) : CommandOrder[i] = name

\* C20 (as claimed): the commands are run in the order of the list, no command
\* is run after one that failed, be it that git could not be run or that it
\* exited with a nonzero status, and a failed command makes save and commit
\* return an error.
C20_NothingRunsAfterFailure ==
    /\ \A i, j \in 1..Len(sv_ran) :
          i < j =>
              /\ Rank(sv_ran[i].name) < Rank(sv_ran[j].name)
              /\ sv_ran[i].outcome = "exit_zero"
    /\ sv_pc = "done" =>
          ((\E i \in 1..Len(sv_ran) : sv_ran[i].outcome # "exit_zero")
              => ~sv_result.val.ok)

====
